---- MODULE Spec2Model ----
(***************************************************************************)
(* Region monitoring engine of sipi-etl: RegionMonitor (task map, monitor  *)
(* loop, region scan), GeoRegion geometry, and the stores the scan reads   *)
(* and writes.                                                             *)
(*                                                                         *)
(* Coroutines are modelled at the granularity of asyncio: a coroutine runs *)
(* atomically from one suspension point (an awaited database call, an      *)
(* awaited sleep, an awaited task) to the next.  Coordinates are points of *)
(* an integer grid and the great-circle distance is the planar distance on *)
(* that grid (compared squared).                                           *)
(*                                                                         *)
(* Names that the sources leave unbound (common_config and OverpassClient  *)
(* in region_monitor.py, cos and radians in models.py, evidencias in       *)
(* scorer.py) are read as the objects they evidently stand for.  Where     *)
(* such a name is not bound the call that reaches it raises; a scan that   *)
(* raises is the failure step of the scan (TaskScanFail, ReqScanFail),     *)
(* which is enabled at every suspension point.                             *)
(*                                                                         *)
(* The specifications share the state: Spec (the task maps, the loops,     *)
(* stop and stop_all), LoopSpec (one monitor and its loops, with the       *)
(* fairness of the event loop), ScanSpec (scans by a loop and by manual    *)
(* requests, with the ingestion side changing the listings), ClockSpec     *)
(* (the same scans while time passes) and OsmSpec (the same scans while    *)
(* the Overpass service changes its answers).  StatusSpec, ScorerSpec,     *)
(* ChurchSpec and MatchSpec call one function each, on every input of a    *)
(* bounded set, with the program at rest.                                  *)
(***************************************************************************)
EXTENDS Integers, Sequences, FiniteSets, TLC

\* ------------------------------------------------------------------------
\* Bounds
\* ------------------------------------------------------------------------
MaxMonitors == 2
MaxTasks == 2
MaxReqs == 1
MaxRegions == 2
MaxChanges == 2
MaxScanLoops == 1
MaxClock == 2
MaxElements == 2
MaxCandidates == 2
MaxClients == 2
MaxCalls == 2
MaxExpiries == 1

\* the longitudes of a full turn (360 degrees) on the grid of the model
FullTurn == 8

MonitorIds == 1..MaxMonitors
TaskIds == 1..MaxTasks
ReqIds == 1..MaxReqs
RegionIds == 1..MaxRegions
ClientIds == 1..MaxClients

\* ------------------------------------------------------------------------
\* Program constants
\* ------------------------------------------------------------------------
None == "None"

\* SQL NULL / Python None in a numeric column or field
NULL == -999

\* config.scoring['detection_threshold']
detection_threshold == 50

\* await asyncio.sleep(300) in the failure branch of _monitor_loop
BackoffSeconds == 300

SecondsPerHour == 3600

\* interval_hours values offered to start_monitoring (default 24; the API
\* accepts 1..168)
IntervalHours == {1, 24}

\* RegionShape
CIRCLE == "circle"
POLYGON == "polygon"
BOUNDING_BOX == "bbox"
ADMINISTRATIVE == "admin"

\* ------------------------------------------------------------------------
\* Data the scan reads: portals.inmuebles_raw.  A title is the set of the
\* words in it.
\* ------------------------------------------------------------------------
Inmuebles ==
  << [id |-> 1, portal |-> "idealista", id_portal |-> "A", lat |-> 0, lon |-> 1,
      titulo |-> {"piso", "moderno"}],
     [id |-> 2, portal |-> "idealista", id_portal |-> "B", lat |-> 1, lon |-> 0,
      titulo |-> {"antigua", "capilla"}],
     [id |-> 3, portal |-> "fotocasa",  id_portal |-> "A", lat |-> 2, lon |-> 2,
      titulo |-> {"convento"}],
     [id |-> 4, portal |-> "fotocasa",  id_portal |-> "B", lat |-> 0, lon |-> 0,
      titulo |-> {"local"}],
     [id |-> 5, portal |-> "fotocasa",  id_portal |-> "C", lat |-> 0, lon |-> 2,
      titulo |-> {"antiguo", "convento", "reformado"}] >>

InmuebleIds == DOMAIN Inmuebles

\* portals.detecciones at start: listing 2 scored 55, listing 4 scored 30,
\* listings 1, 3 and 5 not scored yet
NoDeteccion == [score |-> NULL, status |-> None, osm_match_id |-> NULL]

InitialDetecciones ==
  [i \in InmuebleIds |->
     CASE i = 2 -> [score |-> 55, status |-> "detected", osm_match_id |-> NULL]
       [] i = 4 -> [score |-> 30, status |-> "monitoring", osm_match_id |-> NULL]
       [] OTHER -> NoDeteccion]

\* regions.geo_regions at start: one circle
InitialRegion ==
  [shape_type |-> CIRCLE, center_lat |-> 0, center_lon |-> 0, radius_m |-> 2]

\* no row for this id in regions.geo_regions
NoRegion ==
  [shape_type |-> None, center_lat |-> NULL, center_lon |-> NULL, radius_m |-> NULL]

\* geometry given to the create_region_from_* operations
NewRegions ==
  { [shape_type |-> CIRCLE, center_lat |-> 2, center_lon |-> 2, radius_m |-> 1],
    [shape_type |-> POLYGON, center_lat |-> NULL, center_lon |-> NULL, radius_m |-> NULL] }

\* ------------------------------------------------------------------------
\* GeoRegion
\* ------------------------------------------------------------------------
\* a GeoRegion as RegionBuilder makes it
Shape(shape_type, center_lat, center_lon, radius_m, coordinates) ==
  [shape_type |-> shape_type, center_lat |-> center_lat, center_lon |-> center_lon,
   radius_m |-> radius_m, coordinates |-> coordinates]

\* a containment test that leaves the rim of the circle out
contains_point_open(region, lat, lon) ==
  /\ region.shape_type = CIRCLE
  /\ LET dlat == lat - region.center_lat
         dlon == lon - region.center_lon
     IN  dlat * dlat + dlon * dlon < region.radius_m * region.radius_m

\* the difference of two longitudes as the haversine formula takes it:
\* sin(delta_lon / 2) ** 2 is the same for delta_lon and for a full turn less
\* delta_lon
delta_lon(lon1, lon2) ==
  LET d == (IF lon1 >= lon2 THEN lon1 - lon2 ELSE lon2 - lon1) % FullTurn
  IN  IF d <= FullTurn - d THEN d ELSE FullTurn - d

\* GeoRegion.contains_point: haversine distance to the center <= radius_m for
\* a circle; False for every other shape
contains_point(region, lat, lon) ==
  IF region.shape_type = CIRCLE
  THEN LET dlat == lat - region.center_lat
           dlon == delta_lon(lon, region.center_lon)
       IN  /\ region.radius_m >= 0
           /\ dlat * dlat + dlon * dlon <= region.radius_m * region.radius_m
  ELSE FALSE

\* what to_wkt gives: the text returned (its geometry tag and its
\* "lon lat" pairs) or the error raised, with self.coordinates as the call
\* leaves it
WKT(result, geometry, pairs, coordinates) ==
  [result |-> result, geometry |-> geometry, pairs |-> pairs, coordinates |-> coordinates]

\* a ring emitted as the vertex list stands
close_ring_asis(coordinates) == coordinates

\* to_wkt, polygon branch: coords = self.coordinates.copy(), with coords[0]
\* appended when coords[0] != coords[-1]
close_ring(coordinates) ==
  IF coordinates[1] # coordinates[Len(coordinates)]
  THEN Append(coordinates, coordinates[1])
  ELSE coordinates

\* f"{lon} {lat}" for lat, lon in coords
lon_lat(coords) == [i \in 1..Len(coords) |-> <<coords[i][2], coords[i][1]>>]

\* GeoRegion.to_wkt; coordinates = <<>> stands for None and for the empty
\* list, which `not self.coordinates' treats alike
to_wkt(region) ==
  CASE region.shape_type = CIRCLE ->
         WKT("text", "POINT", <<<<region.center_lon, region.center_lat>>>>, region.coordinates)
    [] region.shape_type = POLYGON ->
         IF Len(region.coordinates) < 3
         THEN WKT("ValueError", "", <<>>, region.coordinates)
         ELSE WKT("text", "POLYGON", lon_lat(close_ring(region.coordinates)),
                  region.coordinates)
    [] region.shape_type = BOUNDING_BOX ->
         IF Len(region.coordinates) # 2
         THEN WKT("ValueError", "", <<>>, region.coordinates)
         ELSE LET sw == region.coordinates[1]
                  ne == region.coordinates[2]
              IN  WKT("text", "POLYGON",
                      <<<<sw[2], sw[1]>>, <<ne[2], sw[1]>>, <<ne[2], ne[1]>>,
                        <<sw[2], ne[1]>>, <<sw[2], sw[1]>>>>,
                      region.coordinates)
    [] OTHER -> WKT(None, "", <<>>, region.coordinates)

\* GeoRegion.get_bounding_box: the center plus and minus the radius for a
\* circle, the extremes of the vertex list for a polygon, the two corners as
\* they were given for a bounding box; the administrative shape falls through
\* to `return None'.  On a region loaded by _get_region, which leaves
\* `coordinates' at its default None, the polygon and bbox branches fail
get_bounding_box(region) ==
  LET failed(error) ==
        [result |-> error,
         min_lat |-> NULL, min_lon |-> NULL, max_lat |-> NULL, max_lon |-> NULL]
      lowest(S) == CHOOSE x \in S : \A y \in S : x <= y
      highest(S) == CHOOSE x \in S : \A y \in S : x >= y
  IN
  CASE region.shape_type = CIRCLE ->
         [result |-> "bbox",
          min_lat |-> region.center_lat - region.radius_m,
          min_lon |-> region.center_lon - region.radius_m,
          max_lat |-> region.center_lat + region.radius_m,
          max_lon |-> region.center_lon + region.radius_m]
    [] region.shape_type \in {POLYGON, BOUNDING_BOX}
         /\ "coordinates" \notin DOMAIN region ->
         failed("TypeError")
    [] region.shape_type = POLYGON /\ "coordinates" \in DOMAIN region ->
         IF region.coordinates = <<>>
         THEN failed("ValueError")
         ELSE LET lats == { region.coordinates[i][1] : i \in DOMAIN region.coordinates }
                  lons == { region.coordinates[i][2] : i \in DOMAIN region.coordinates }
              IN  [result |-> "bbox",
                   min_lat |-> lowest(lats), min_lon |-> lowest(lons),
                   max_lat |-> highest(lats), max_lon |-> highest(lons)]
    [] region.shape_type = BOUNDING_BOX /\ "coordinates" \in DOMAIN region ->
         IF Len(region.coordinates) < 2
         THEN failed("IndexError")
         ELSE [result |-> "bbox",
               min_lat |-> region.coordinates[1][1], min_lon |-> region.coordinates[1][2],
               max_lat |-> region.coordinates[2][1], max_lon |-> region.coordinates[2][2]]
    [] OTHER -> failed(None)

\* ------------------------------------------------------------------------
\* RegionMonitor: scoring helpers
\* ------------------------------------------------------------------------
\* the keyword lists of idealista/config/keywords
EXPLICIT == {"iglesia", "convento", "capilla"}
POSITIVE == {"religioso", "historico"}
NEGATIVE == {"moderno", "garaje"}

\* idealista/config/scoring
WEIGHTS == [keywords |-> 70, proximity |-> 20, surface |-> 10]
PROXIMITY == [radius_meters |-> 200, max_score |-> 20]
SURFACE == [min_size_m2 |-> 300, max_score |-> 10, high_ceilings |-> 3, multiple_floors |-> 3]

\* dict.get(k, default)
Get(d, k, default) == IF k \in DOMAIN d THEN d[k] ELSE default

Min(a, b) == IF a <= b THEN a ELSE b

\* ReligiousPropertyScorer.score, with `evidencias' read as the list
\* `evidences' (where the name is unbound the call raises NameError, and the
\* scan fails as in TaskScanFail, ReqScanFail).  A text is the set of its
\* words.  The scorer has no attribute `overpass': the proximity branch raises
scorer_score(inmueble) ==
  LET extras == Get(inmueble, "caracteristicas_extras", {})
      text == Get(inmueble, "titulo_completo", {}) \cup extras
      keywords ==
        IF text \cap EXPLICIT # {}
        THEN 100
        ELSE Cardinality(text \cap POSITIVE) * (WEIGHTS.keywords \div Cardinality(POSITIVE))
             - Cardinality(text \cap NEGATIVE) * (WEIGHTS.keywords \div Cardinality(NEGATIVE))
      lat == Get(inmueble, "latitud", NULL)
      lon == Get(inmueble, "longitud", NULL)
      m2 == Get(inmueble, "m2_construidos", NULL)
      surface == IF m2 # NULL /\ m2 >= SURFACE.min_size_m2 THEN SURFACE.max_score ELSE 0
      ceilings == IF extras \cap {"techos altos", "doble altura"} # {}
                  THEN SURFACE.high_ceilings ELSE 0
      floors == IF extras \cap {"varias plantas", "multiples niveles"} # {}
                THEN SURFACE.multiple_floors ELSE 0
      Notes(n, note) == [k \in 1..n |-> note]
      evidences ==
        (IF text \cap EXPLICIT # {}
         THEN <<"Keyword explicita (100 %)">>
         ELSE Notes(Cardinality(text \cap POSITIVE), "Keyword positiva")
              \o Notes(Cardinality(text \cap NEGATIVE), "Keyword negativa"))
        \o (IF surface # 0 THEN <<"Superficie">> ELSE <<>>)
        \o (IF ceilings # 0 THEN <<"Techos altos/doble altura">> ELSE <<>>)
        \o (IF floors # 0 THEN <<"Multiples niveles">> ELSE <<>>)
  IN  IF lat # NULL /\ lon # NULL
      THEN [raised |-> TRUE, score |-> 0, evidences |-> <<>>]
      ELSE [raised |-> FALSE, score |-> Min(keywords + surface + ceilings + floors, 100),
            evidences |-> evidences]

\* the dict RegionMonitor._score_inmueble builds from the row
inmueble_data(row) ==
  [titulo |-> row.titulo, descripcion |-> {}, caracteristicas_basicas |-> {},
   caracteristicas_extras |-> {}, lat |-> row.lat, lon |-> row.lon]

\* RegionMonitor._score_inmueble
_score_inmueble(row) == scorer_score(inmueble_data(row))

\* config.scoring['statuses']
statuses == [confirmed |-> "confirmed", detected |-> "detected", monitoring |-> "monitoring"]

\* RegionMonitor._get_status_for_score
_get_status_for_score(score) ==
  IF score = 100 THEN statuses.confirmed
  ELSE IF score >= detection_threshold THEN statuses.detected
  ELSE IF score > 0 THEN statuses.monitoring
  ELSE "no_detectado"

\* ------------------------------------------------------------------------
\* OverpassClient
\* ------------------------------------------------------------------------
\* elements of an Overpass answer (`out center'): a node carries lat/lon, a
\* way or relation carries a center, or nothing when the server sent none
Element(type, id, name, lat, lon, center) ==
  [type |-> type, id |-> id, name |-> name, lat |-> lat, lon |-> lon, center |-> center]

NoCenter == [present |-> FALSE, lat |-> NULL, lon |-> NULL]
Center(lat, lon) == [present |-> TRUE, lat |-> lat, lon |-> lon]

Elements ==
  { Element("node", 1, {"san", "pedro"}, 2, 3, NoCenter),
    Element("way", 2, {"sin", "nombre"}, NULL, NULL, Center(2, 2)),
    Element("relation", 3, {"convento"}, NULL, NULL, NoCenter),
    Element("node", 4, {"ermita"}, NULL, NULL, NoCenter),
    Element("way", 5, {"santa", "ana"}, 0, 0, Center(1, 2)) }

\* what requests.post / raise_for_status / response.json() give: a parsed
\* answer, or one of the failures
Answer(status, elements) == [status |-> status, elements |-> elements]

NoChurches == Answer("ok", <<>>)

\* no answer at all, an error status (whose body may hold elements all the
\* same), a body that is not JSON
OverpassFailures ==
  { Answer("ConnectionError", <<>>),
    Answer("HTTPError", <<Element("node", 1, {"san", "pedro"}, 2, 3, NoCenter)>>),
    Answer("JSONDecodeError", <<>>) }

\* OSMChurch
OSMChurch(osm_id, osm_type, name, lat, lon, distance) ==
  [osm_id |-> osm_id, osm_type |-> osm_type, name |-> name, lat |-> lat, lon |-> lon,
   distance |-> distance]

\* OverpassClient._haversine_distance, on the grid: the squared planar
\* distance, which orders points as the distance does
_haversine_distance(lat1, lon1, lat2, lon2) ==
  (lat2 - lat1) * (lat2 - lat1) + (lon2 - lon1) * (lon2 - lon1)

\* a result left in the order of the answer
sorted_asis(churches) == churches

\* sorted(churches, key=lambda x: x.distance): stable, ascending
RECURSIVE sorted(_)
sorted(churches) ==
  IF churches = <<>> THEN <<>>
  ELSE LET rest == sorted(Tail(churches))
           x == Head(churches)
           before == SelectSeq(rest, LAMBDA c : c.distance < x.distance)
           after == SelectSeq(rest, LAMBDA c : c.distance >= x.distance)
       IN  before \o <<x>> \o after

\* a client that takes every answer for a good one
request_failed_never(answer) == FALSE

\* requests.post, response.raise_for_status() or response.json() raised
request_failed(answer) == answer.status # "ok"

\* the coordinates find_churches_nearby measures an element by: its own for
\* a node, those of its center otherwise
ElementPoint(element) ==
  IF element.type = "node"
  THEN [lat |-> element.lat, lon |-> element.lon]
  ELSE [lat |-> element.center.lat, lon |-> element.center.lon]

\* OverpassClient.find_churches_nearby for the answer the service gives to
\* the query around (lat, lon).  Everything from the request to the sort is
\* inside try/except Exception: a failed request, an error status, a body
\* that is not JSON, and an element whose coordinates are missing (the
\* distance computation raises TypeError) all end in `return []'
find_churches_nearby(answer, lat, lon) ==
  IF request_failed(answer) THEN <<>>
  ELSE LET kept == SelectSeq(answer.elements,
                             LAMBDA e : e.type = "node" \/ e.center.present)
           Church(e) == OSMChurch(e.id, e.type, e.name, ElementPoint(e).lat,
                                  ElementPoint(e).lon,
                                  _haversine_distance(lat, lon, ElementPoint(e).lat,
                                                      ElementPoint(e).lon))
       IN  IF \E k \in DOMAIN kept :
                ElementPoint(kept[k]).lat = NULL \/ ElementPoint(kept[k]).lon = NULL
           THEN <<>>
           ELSE sorted([k \in DOMAIN kept |-> Church(kept[k])])

\* ------------------------------------------------------------------------
\* The stores, as values
\* ------------------------------------------------------------------------
\* the candidate query of scan_region: active listings inside the bounding
\* box whose stored score is NULL or >= min_score, in id order
QueryRows(bbox, min_score, active, det) ==
  LET Join(i) == [id |-> i,
                  portal |-> Inmuebles[i].portal,
                  titulo |-> Inmuebles[i].titulo,
                  id_portal |-> Inmuebles[i].id_portal,
                  lat |-> Inmuebles[i].lat,
                  lon |-> Inmuebles[i].lon,
                  score |-> det[i].score,
                  status |-> det[i].status,
                  osm_match_id |-> det[i].osm_match_id]
      Hit(row) == /\ active[row.id]
                  /\ row.lat >= bbox.min_lat /\ row.lat <= bbox.max_lat
                  /\ row.lon >= bbox.min_lon /\ row.lon <= bbox.max_lon
                  /\ (row.score = NULL \/ row.score >= min_score)
  IN  SelectSeq([i \in InmuebleIds |-> Join(i)], Hit)

\* the conflict target of the alert insert
AlertKey(a) == <<a.region_id, a.portal, a.inmueble_id>>

\* an insert without the ON CONFLICT clause
InsertAlert_append(store, a) == Append(store, a)

\* one row of the bulk insert: ON CONFLICT (region_id, portal, inmueble_id)
\* DO NOTHING
InsertAlert(store, a) ==
  IF \E k \in DOMAIN store : AlertKey(store[k]) = AlertKey(a)
  THEN store
  ELSE Append(store, a)

RECURSIVE InsertAlerts(_, _)
InsertAlerts(store, alerts) ==
  IF alerts = <<>> THEN store
  ELSE InsertAlerts(InsertAlert(store, Head(alerts)), Tail(alerts))

\* a bulk insert that adds every alert of the scan
_save_alerts_concat(store, alerts) == store \o alerts

\* RegionMonitor._save_alerts
_save_alerts(store, alerts) ==
  IF alerts = <<>> THEN store ELSE InsertAlerts(store, alerts)

\* RegionMonitor._save_detection: upsert keyed by inmueble_id
_save_detection(det, row, score, status) ==
  [det EXCEPT ![row.id] = [@ EXCEPT !.score = score, !.status = status]]

\* RegionAlert(...) built at the end of the loop body of scan_region
NoChurch == OSMChurch(NULL, None, {}, NULL, NULL, NULL)

\* the lookup made for the alert: osm_church_id starts as row.osm_match_id;
\* if row.lat and row.lon, and the list is not empty, id, name and distance
\* are those of the first of find_churches_nearby(row.lat, row.lon, 150)
closest_church(row, osm) ==
  IF row.lat # 0 /\ row.lon # 0 /\ find_churches_nearby(osm, row.lat, row.lon) # <<>>
  THEN find_churches_nearby(osm, row.lat, row.lon)[1]
  ELSE [NoChurch EXCEPT !.osm_id = row.osm_match_id]

NewAlert(region_id, row, score, status, osm) ==
  [region_id |-> region_id, portal |-> row.portal, inmueble_id |-> row.id_portal,
   score |-> score, status |-> status, lat |-> row.lat, lon |-> row.lon,
   osm_church_id |-> closest_church(row, osm).osm_id,
   osm_church_name |-> closest_church(row, osm).name,
   osm_distance_m |-> closest_church(row, osm).distance]

\* ------------------------------------------------------------------------
\* scan_region as a coroutine.  A frame holds the locals of one call and the
\* awaited call it is suspended in:
\*   get_region           _get_region (db.execute)
\*   query                the candidate query (db.execute)
\*   save_detection       _save_detection for rows[idx]
\*   save_alerts          _save_alerts
\*   update_last_checked  _update_region_last_checked
\* or that the call has raised (pc = "raised")
\* ------------------------------------------------------------------------
IdleFrame ==
  [pc |-> "idle", region |-> NoRegion, rows |-> <<>>, idx |-> 0, alerts |-> <<>>,
   ver |-> 0, added |-> 0, txn |-> NULL]

\* the frame of a call that has just been made: suspended in _get_region.
\* ver (history) is the number of ingestion writes made before the call,
\* added (history) the number of rows its _save_alerts has put in the store,
\* txn the start time of the transaction the session has open (NULL: none)
EnterScan(ver) == [IdleFrame EXCEPT !.pc = "get_region", !.ver = ver]

\* a loop body without the containment test
Outside_never(region, row) == FALSE

\* if not region.contains_point(row.lat, row.lon): continue
Outside(region, row) == ~contains_point(region, row.lat, row.lon)

\* the for loop over the rows from row i on, up to the next suspension
RECURSIVE RunRows(_, _, _, _, _, _)
RunRows(region_id, f, rows, i, alerts, osm) ==
  IF i > Len(rows)
  THEN [f EXCEPT !.pc = IF alerts # <<>> THEN "save_alerts" ELSE "update_last_checked",
                  !.rows = rows, !.idx = i, !.alerts = alerts]
  ELSE LET row == rows[i] IN
       IF Outside(f.region, row)
       THEN RunRows(region_id, f, rows, i + 1, alerts, osm)
       ELSE IF row.score = NULL
            THEN LET scored == _score_inmueble(row)
                     status == _get_status_for_score(scored.score)
                 IN  IF scored.raised
                     THEN [f EXCEPT !.pc = "raised"]
                     ELSE IF scored.score >= detection_threshold
                     THEN [f EXCEPT !.pc = "save_detection",
                                    !.rows = rows, !.idx = i, !.alerts = alerts]
                     ELSE RunRows(region_id, f, rows, i + 1,
                                  Append(alerts, NewAlert(region_id, row, scored.score,
                                                          status, osm)),
                                  osm)
            ELSE RunRows(region_id, f, rows, i + 1,
                         Append(alerts, NewAlert(region_id, row, row.score, row.status, osm)),
                         osm)

\* the scan endpoint of the API: "alerts_generated": len(alerts), reported as
\* "{len(alerts)} new alerts", from the list a returning scan_region hands
\* back in frame f
alerts_generated(f) == Len(f.alerts)

\* a scan that skips the test of the loaded region
RegionMissing_unchecked(region) == FALSE

\* if not region: _get_region found no row
RegionMissing(region) == region.shape_type = None

\* the exception scan_region raises between _get_region and the candidate
\* query; "" when it goes on to the query
LoadError(region) ==
  IF RegionMissing(region) THEN "ValueError: Region not found"
  ELSE IF get_bounding_box(region).result = "TypeError" THEN "TypeError"
  ELSE IF get_bounding_box(region).result # "bbox"
       THEN "ValueError: Cannot compute bounding box"
       ELSE ""

\* regions.region_alerts.region_id references regions.geo_regions: an insert
\* for a region without a row is refused
references_geo_regions(regs, region_id) == ~RegionMissing(regs[region_id])

\* the rows left in regions.region_alerts when rows of regions.geo_regions
\* go: ON DELETE CASCADE
cascade(store, regs) ==
  SelectSeq(store, LAMBDA a : references_geo_regions(regs, a.region_id))

\* NOW() of the database: the start time of the current transaction.  A
\* statement issued with no transaction open begins one.
NOW(txn, now) == IF txn = NULL THEN now ELSE txn

\* scan_region resumed normally at the frame's suspension point, run up to
\* the next one.  out: "suspend", "return" or "raise".  The session begins a
\* transaction at its first statement and each db.commit() ends it; at is
\* the value the UPDATE gives last_checked, osm the answer the Overpass
\* service gives to the lookups made before the next suspension
Resume(f, region_id, regs, active, det, store, now, osm) ==
  LET Same(out, g) == [out |-> out, f |-> g, det |-> det, store |-> store,
                       checked |-> FALSE, at |-> NULL]
      Go(g, d) == [out |-> IF g.pc = "raised" THEN "raise" ELSE "suspend",
                   f |-> IF g.pc = "raised" THEN IdleFrame ELSE g,
                   det |-> d, store |-> store, checked |-> FALSE, at |-> NULL]
  IN
  CASE f.pc = "get_region" ->
         IF LoadError(regs[region_id]) # ""
         THEN Same("raise", IdleFrame)
         ELSE Same("suspend", [f EXCEPT !.pc = "query", !.region = regs[region_id],
                                        !.txn = now])
    [] f.pc = "query" ->
         Go(RunRows(region_id, f,
                    QueryRows(get_bounding_box(f.region), detection_threshold, active, det),
                    1, <<>>, osm),
            det)
    [] f.pc = "save_detection" ->
         LET row == f.rows[f.idx]
             score == _score_inmueble(row).score
             status == _get_status_for_score(score)
         IN  Go(RunRows(region_id, [f EXCEPT !.txn = NULL], f.rows, f.idx + 1,
                        Append(f.alerts, NewAlert(region_id, row, score, status, osm)), osm),
                _save_detection(det, row, score, status))
    [] f.pc = "save_alerts" ->
         IF ~references_geo_regions(regs, region_id)
         THEN Same("raise", IdleFrame)
         ELSE
         [out |-> "suspend",
          f |-> [f EXCEPT !.pc = "update_last_checked", !.txn = NULL,
                          !.added = Len(_save_alerts(store, f.alerts)) - Len(store)],
          det |-> det, store |-> _save_alerts(store, f.alerts), checked |-> FALSE,
          at |-> NULL]
    [] f.pc = "update_last_checked" ->
         [out |-> "return", f |-> IdleFrame, det |-> det, store |-> store,
          checked |-> ~RegionMissing(regs[region_id]), at |-> NOW(f.txn, now)]

\* ------------------------------------------------------------------------
\* State
\* ------------------------------------------------------------------------
VARIABLES
  nMonitors,        \* RegionMonitor instances constructed so far
  active_monitors,  \* per instance: the dict region_id -> task, in insertion order
  nTasks,           \* asyncio tasks created so far
  tasks,            \* the _monitor_loop tasks
  reqs,             \* calls in flight: scan, create, stop, stop_all
  nRegions,         \* ids handed out by regions.geo_regions
  geo_regions,      \* regions.geo_regions
  last_checked,     \* regions.geo_regions.last_checked
  is_active,        \* portals.inmuebles_raw.is_active
  detecciones,      \* portals.detecciones
  region_alerts,    \* regions.region_alerts, in insertion order
  changes,          \* writes made by the ingestion side so far
  clock,            \* the time of the database server
  overpass,         \* what the Overpass service answers at present
  call,             \* a call of one of the pure functions, and its result
  baseline,         \* history: per region, the alert count left by the first scan
                    \* that ran on the current listing data, and how many such
                    \* scans have returned (counted up to 2)
  absorbed,         \* history: some start_monitoring call returned at its guard
  redis,            \* the keys of the Redis server
  clients           \* the Redis clients of the process, each at its await

vars == <<nMonitors, active_monitors, nTasks, tasks, reqs, nRegions, geo_regions,
          last_checked, is_active, detecciones, region_alerts, changes, clock,
          overpass, call, baseline, absorbed, redis, clients>>

dbVars == <<nRegions, geo_regions, last_checked, is_active, detecciones, region_alerts,
            changes, clock>>

\* the Redis server and its clients
cacheVars == <<redis, clients>>

\* the Overpass service, the function call under test and the cache
auxVars == <<overpass, call, cacheVars>>

\* the program itself
progVars == <<nMonitors, active_monitors, nTasks, tasks, reqs, dbVars, baseline, absorbed>>

NoTask ==
  [pc |-> "unused", region_id |-> 0, interval_hours |-> 0, monitor |-> 0,
   delay |-> 0, must_cancel |-> FALSE, f |-> IdleFrame]

NoReq ==
  [kind |-> "free", monitor |-> 0, region_id |-> 0, auto_start |-> FALSE,
   todo |-> <<>>, wait |-> 0, f |-> IdleFrame, tracked |-> <<>>]

NoBaseline == [ver |-> -1, count |-> 0, n |-> 0]

\* no function call
NoCall == [fn |-> "", arg |-> <<>>, ret |-> <<>>, done |-> TRUE]

\* a call of fn with argument arg, not made yet
Call(fn, arg) == [fn |-> fn, arg |-> arg, ret |-> <<>>, done |-> FALSE]

\* a key of the Redis server: absent, or set by the client `owner`
NoKey == [present |-> FALSE, owner |-> 0]

\* the deduplication key of one (portal, id_portal) and the key of one lock name,
\* both absent, and the number of keys the server has expired so far
NoKeys == [dedup |-> NoKey, lock |-> NoKey, expiries |-> 0]

\* a client that has made no call: `news` counts its check_duplicate calls that
\* returned False, `late` says its present check_duplicate call started after
\* another one had returned False, `lease` says acquire_lock returned True to it
\* and neither has it released the lock since nor has the lock's time to live
\* run out
IdleClient ==
  [pc |-> "idle", calls |-> 0, returned |-> FALSE, ret |-> FALSE, news |-> 0,
   late |-> FALSE, lease |-> FALSE]

\* RegionMonitor.__init__ leaves active_monitors empty; the stores hold one
\* region, five listings (all offered, or all withdrawn) and two detections
InitWith(region, offered, answer, c) ==
  /\ nMonitors = 0
  /\ active_monitors = [m \in MonitorIds |-> <<>>]
  /\ nTasks = 0
  /\ tasks = [t \in TaskIds |-> NoTask]
  /\ reqs = [q \in ReqIds |-> NoReq]
  /\ nRegions = 1
  /\ geo_regions = [r \in RegionIds |-> IF r = 1 THEN region ELSE NoRegion]
  /\ last_checked = [r \in RegionIds |-> NULL]
  /\ clock = 0
  /\ overpass = answer
  /\ call = c
  /\ redis = NoKeys
  /\ clients = [c2 \in ClientIds |-> IdleClient]
  /\ is_active = [i \in InmuebleIds |-> offered]
  /\ detecciones = InitialDetecciones
  /\ region_alerts = <<>>
  /\ changes = 0
  /\ baseline = [r \in RegionIds |-> NoBaseline]
  /\ absorbed = FALSE

Init == InitWith(InitialRegion, TRUE, NoChurches, NoCall)

\* ------------------------------------------------------------------------
\* History of scans, kept for the statements about repeated scans
\* ------------------------------------------------------------------------
AlertCount(store, region_id) ==
  Cardinality({k \in DOMAIN store : store[k].region_id = region_id})

ScansInFlight(region_id) ==
  {<<"task", t>> : t \in {u \in TaskIds : tasks[u].pc = "scan" /\ tasks[u].region_id = region_id}}
  \cup
  {<<"req", q>> : q \in {p \in ReqIds : reqs[p].kind \in {"scan", "create"}
                                        /\ reqs[p].region_id = region_id}}

\* a scan of region_id, called when `entered' ingestion writes had been made,
\* returns and leaves `store'
NoteReturn(who, region_id, entered, store) ==
  IF entered # changes
  THEN baseline
  ELSE IF baseline[region_id].ver = changes
       THEN [baseline EXCEPT ![region_id].n = IF @ < 2 THEN @ + 1 ELSE @]
       ELSE IF ScansInFlight(region_id) \ {who} = {}
            THEN [baseline EXCEPT ![region_id] =
                    [ver |-> changes, count |-> AlertCount(store, region_id), n |-> 1]]
            ELSE baseline

\* ------------------------------------------------------------------------
\* The dict active_monitors of one instance
\* ------------------------------------------------------------------------
\* region_id in self.active_monitors
InMap(d, region_id) == \E k \in DOMAIN d : d[k].region_id = region_id

\* self.active_monitors[region_id]
TaskOf(d, region_id) == d[CHOOSE k \in DOMAIN d : d[k].region_id = region_id].task

\* self.active_monitors[region_id] = task
DictSet(d, region_id, task) ==
  IF InMap(d, region_id)
  THEN [k \in DOMAIN d |-> IF d[k].region_id = region_id
                           THEN [region_id |-> region_id, task |-> task] ELSE d[k]]
  ELSE Append(d, [region_id |-> region_id, task |-> task])

\* del self.active_monitors[region_id]
DictDel(d, region_id) == SelectSeq(d, LAMBDA e : e.region_id # region_id)

\* list(self.active_monitors.keys())
DictKeys(d) == [k \in DOMAIN d |-> d[k].region_id]

\* ------------------------------------------------------------------------
\* RegionMonitor(db)
\* ------------------------------------------------------------------------
RegionMonitorInit ==
  /\ nMonitors < MaxMonitors
  /\ nMonitors' = nMonitors + 1
  /\ UNCHANGED <<auxVars, active_monitors, nTasks, tasks, reqs, dbVars, baseline, absorbed>>

Monitors == 1..nMonitors

\* ------------------------------------------------------------------------
\* start_monitoring
\* ------------------------------------------------------------------------
\* start_monitoring without its guard
AlreadyMonitored_unguarded(d, region_id) == FALSE

\* the guard of start_monitoring: if region_id in self.active_monitors: return
AlreadyMonitored(d, region_id) == InMap(d, region_id)

\* asyncio.create_task(self._monitor_loop(region_id, interval_hours))
NewTask(m, region_id, interval_hours) ==
  [pc |-> "created", region_id |-> region_id, interval_hours |-> interval_hours,
   monitor |-> m, delay |-> 0, must_cancel |-> FALSE, f |-> IdleFrame]

start_monitoring(m, region_id, interval_hours) ==
  /\ m \in Monitors
  /\ IF AlreadyMonitored(active_monitors[m], region_id)
     THEN /\ absorbed' = TRUE
          /\ UNCHANGED <<active_monitors, nTasks, tasks>>
     ELSE /\ nTasks < MaxTasks
          /\ nTasks' = nTasks + 1
          /\ tasks' = [tasks EXCEPT ![nTasks + 1] = NewTask(m, region_id, interval_hours)]
          /\ active_monitors' =
               [active_monitors EXCEPT ![m] = DictSet(@, region_id, nTasks + 1)]
          /\ UNCHANGED absorbed
  /\ UNCHANGED <<auxVars, nMonitors, reqs, dbVars, baseline>>

\* ------------------------------------------------------------------------
\* _monitor_loop
\* ------------------------------------------------------------------------
Live(t) == tasks[t].pc \notin {"unused", "done"}

\* the task runs for the first time and calls scan_region
TaskRun(t) ==
  /\ tasks[t].pc = "created"
  /\ ~tasks[t].must_cancel
  /\ tasks' = [tasks EXCEPT ![t].pc = "scan", ![t].f = EnterScan(changes)]
  /\ UNCHANGED <<auxVars, nMonitors, active_monitors, nTasks, reqs, dbVars, baseline, absorbed>>

\* the loop after scan_region returned: await asyncio.sleep(interval_hours * 3600)
AfterScan(task) ==
  [task EXCEPT !.pc = "sleep", !.f = IdleFrame,
               !.delay = task.interval_hours * SecondsPerHour]

\* a loop that ends at the first failed scan
AfterError_giveup(task) ==
  [task EXCEPT !.pc = "done", !.f = IdleFrame, !.delay = 0]

\* the loop after scan_region raised: except Exception, await asyncio.sleep(300)
AfterError(task) ==
  [task EXCEPT !.pc = "backoff", !.f = IdleFrame, !.delay = BackoffSeconds]

\* the awaited call inside scan_region completes
TaskScanStep(t) ==
  /\ tasks[t].pc = "scan"
  /\ ~tasks[t].must_cancel
  /\ LET o == Resume(tasks[t].f, tasks[t].region_id, geo_regions, is_active,
                     detecciones, region_alerts, clock, overpass)
     IN  /\ tasks' =
               CASE o.out = "suspend" -> [tasks EXCEPT ![t].f = o.f]
                 [] o.out = "return" -> [tasks EXCEPT ![t] = AfterScan(@)]
                 [] OTHER -> [tasks EXCEPT ![t] = AfterError(@)]
         /\ detecciones' = o.det
         /\ region_alerts' = o.store
         /\ last_checked' = IF o.checked
                            THEN [last_checked EXCEPT ![tasks[t].region_id] = o.at]
                            ELSE last_checked
         /\ baseline' = IF o.out = "return"
                        THEN NoteReturn(<<"task", t>>, tasks[t].region_id,
                                        tasks[t].f.ver, o.store)
                        ELSE baseline
  /\ UNCHANGED <<auxVars, nMonitors, active_monitors, nTasks, reqs, nRegions, geo_regions,
                 is_active, changes, clock, absorbed>>

\* the awaited database call raises
TaskScanFail(t) ==
  /\ tasks[t].pc = "scan"
  /\ ~tasks[t].must_cancel
  /\ tasks' = [tasks EXCEPT ![t] = AfterError(@)]
  /\ UNCHANGED <<auxVars, nMonitors, active_monitors, nTasks, reqs, dbVars, baseline, absorbed>>

\* the awaited sleep elapses: next iteration of while True
TaskWake(t) ==
  /\ tasks[t].pc \in {"sleep", "backoff"}
  /\ ~tasks[t].must_cancel
  /\ tasks' = [tasks EXCEPT ![t].pc = "scan", ![t].f = EnterScan(changes), ![t].delay = 0]
  /\ UNCHANGED <<auxVars, nMonitors, active_monitors, nTasks, reqs, dbVars, baseline, absorbed>>

\* task.cancel(): CancelledError is thrown into the task at the await it is
\* suspended in, whichever that is; the loop breaks (or the error leaves the
\* except branch) and the task finishes
TaskCancelled(t) ==
  /\ Live(t)
  /\ tasks[t].must_cancel
  /\ tasks' = [tasks EXCEPT ![t].pc = "done", ![t].f = IdleFrame, ![t].delay = 0,
                            ![t].must_cancel = FALSE]
  /\ UNCHANGED <<auxVars, nMonitors, active_monitors, nTasks, reqs, dbVars, baseline, absorbed>>

\* ------------------------------------------------------------------------
\* stop_monitoring, stop_all_monitoring
\* ------------------------------------------------------------------------
\* a cancel that reaches every task
Cancel_every(ts, t) ==
  [u \in DOMAIN ts |-> IF ts[u].pc \in {"unused", "done"} THEN ts[u]
                        ELSE [ts[u] EXCEPT !.must_cancel = TRUE]]

\* task.cancel(): a request to cancel; nothing for a finished task
Cancel(ts, t) ==
  IF ts[t].pc \in {"unused", "done"} THEN ts ELSE [ts EXCEPT ![t].must_cancel = TRUE]

\* stop_monitoring going on without awaiting the cancelled task
Finished_unawaited(ts, t) == TRUE

\* `await task' goes on only once the task has finished
Finished(ts, t) == ts[t].pc = "done"

\* stop_monitoring for each region of todo in turn, up to the first
\* `await task' that has to wait.  wait = 0: every stop returned
RECURSIVE RunStops(_, _, _, _)
RunStops(m, todo, am, ts) ==
  IF todo = <<>>
  THEN [am |-> am, ts |-> ts, todo |-> <<>>, wait |-> 0]
  ELSE LET region_id == Head(todo) IN
       IF ~InMap(am[m], region_id)
       THEN RunStops(m, Tail(todo), am, ts)
       ELSE LET task == TaskOf(am[m], region_id)
                cancelled == Cancel(ts, task)
            IN  IF Finished(ts, task)
                THEN RunStops(m, Tail(todo), [am EXCEPT ![m] = DictDel(@, region_id)],
                              cancelled)
                ELSE [am |-> am, ts |-> cancelled, todo |-> todo, wait |-> task]

FreeReq(q) == reqs[q].kind = "free" /\ \A p \in ReqIds : p < q => reqs[p].kind # "free"

BeginStops(q, kind, m, todo) ==
  LET o == RunStops(m, todo, active_monitors, tasks) IN
  /\ active_monitors' = o.am
  /\ tasks' = o.ts
  /\ IF o.wait = 0
     THEN reqs' = reqs
     ELSE /\ FreeReq(q)
          /\ reqs' = [reqs EXCEPT ![q] = [NoReq EXCEPT !.kind = kind, !.monitor = m,
                                                       !.region_id = Head(o.todo),
                                                       !.todo = o.todo, !.wait = o.wait,
                                                       !.tracked = todo]]
  /\ UNCHANGED <<auxVars, nMonitors, nTasks, dbVars, baseline, absorbed>>

stop_monitoring(q, m, region_id) ==
  /\ m \in Monitors
  /\ BeginStops(q, "stop", m, <<region_id>>)

stop_all_monitoring(q, m) ==
  /\ m \in Monitors
  /\ BeginStops(q, "stop_all", m, DictKeys(active_monitors[m]))

\* `await task' returns (or raises CancelledError, which is swallowed);
\* del self.active_monitors[region_id] raises KeyError when the key is gone
StopResume(q) ==
  /\ reqs[q].kind \in {"stop", "stop_all"}
  /\ Finished(tasks, reqs[q].wait)
  /\ LET m == reqs[q].monitor
         region_id == Head(reqs[q].todo)
     IN  IF ~InMap(active_monitors[m], region_id)
         THEN /\ reqs' = [reqs EXCEPT ![q] = NoReq]
              /\ UNCHANGED <<active_monitors, tasks>>
         ELSE LET o == RunStops(m, Tail(reqs[q].todo),
                                [active_monitors EXCEPT ![m] = DictDel(@, region_id)],
                                tasks)
              IN  /\ active_monitors' = o.am
                  /\ tasks' = o.ts
                  /\ reqs' = IF o.wait = 0
                             THEN [reqs EXCEPT ![q] = NoReq]
                             ELSE [reqs EXCEPT ![q].todo = o.todo, ![q].wait = o.wait,
                                               ![q].region_id = Head(o.todo)]
  /\ UNCHANGED <<auxVars, nMonitors, nTasks, dbVars, baseline, absorbed>>

\* ------------------------------------------------------------------------
\* scan_region called directly (manual scan) and by create_region_from_*
\* ------------------------------------------------------------------------
scan_region(q, region_id) ==
  /\ FreeReq(q)
  /\ reqs' = [reqs EXCEPT ![q] = [NoReq EXCEPT !.kind = "scan", !.region_id = region_id,
                                               !.f = EnterScan(changes)]]
  /\ UNCHANGED <<auxVars, nMonitors, active_monitors, nTasks, tasks, dbVars, baseline, absorbed>>

\* create_region_from_*: build the region, _save_region, then the initial scan
create_region(q, m, region, auto_start) ==
  /\ m \in Monitors
  /\ FreeReq(q)
  /\ nRegions < MaxRegions
  /\ nRegions' = nRegions + 1
  /\ geo_regions' = [geo_regions EXCEPT ![nRegions + 1] = region]
  /\ reqs' = [reqs EXCEPT ![q] = [NoReq EXCEPT !.kind = "create", !.monitor = m,
                                               !.region_id = nRegions + 1,
                                               !.auto_start = auto_start,
                                               !.f = EnterScan(changes)]]
  /\ UNCHANGED <<auxVars, nMonitors, active_monitors, nTasks, tasks, last_checked, is_active,
                 detecciones, region_alerts, changes, clock, baseline, absorbed>>

\* the awaited call inside the scan of request q completes; when the scan
\* of a create returns, start_monitoring follows if auto_start
ReqScanStep(q) ==
  /\ reqs[q].kind \in {"scan", "create"}
  /\ LET o == Resume(reqs[q].f, reqs[q].region_id, geo_regions, is_active,
                     detecciones, region_alerts, clock, overpass)
         m == reqs[q].monitor
         starts == /\ o.out = "return"
                   /\ reqs[q].kind = "create"
                   /\ reqs[q].auto_start
                   /\ ~AlreadyMonitored(active_monitors[m], reqs[q].region_id)
     IN  /\ reqs' = IF o.out = "suspend"
                    THEN [reqs EXCEPT ![q].f = o.f]
                    ELSE [reqs EXCEPT ![q] = NoReq]
         /\ detecciones' = o.det
         /\ region_alerts' = o.store
         /\ last_checked' = IF o.checked
                            THEN [last_checked EXCEPT ![reqs[q].region_id] = o.at]
                            ELSE last_checked
         /\ baseline' = IF o.out = "return"
                        THEN NoteReturn(<<"req", q>>, reqs[q].region_id,
                                        reqs[q].f.ver, o.store)
                        ELSE baseline
         /\ IF starts
            THEN /\ nTasks < MaxTasks
                 /\ nTasks' = nTasks + 1
                 /\ tasks' = [tasks EXCEPT ![nTasks + 1] =
                                NewTask(m, reqs[q].region_id, 24)]
                 /\ active_monitors' =
                      [active_monitors EXCEPT ![m] = DictSet(@, reqs[q].region_id, nTasks + 1)]
            ELSE UNCHANGED <<nTasks, tasks, active_monitors>>
  /\ UNCHANGED <<auxVars, nMonitors, nRegions, geo_regions, is_active, changes, clock, absorbed>>

\* the awaited database call raises; the error reaches the caller
ReqScanFail(q) ==
  /\ reqs[q].kind \in {"scan", "create"}
  /\ reqs' = [reqs EXCEPT ![q] = NoReq]
  /\ UNCHANGED <<auxVars, nMonitors, active_monitors, nTasks, tasks, dbVars, baseline, absorbed>>

\* ------------------------------------------------------------------------
\* RegionBuilder, create_region_from_*, delete_region
\* ------------------------------------------------------------------------
\* what a builder call gives: a region, None, or the error it raises
Built(result, region) == [result |-> result, region |-> region]

\* self.geocoder.geocode(address, limit=1): no result, or the place found
NotFound == [found |-> FALSE, lat |-> NULL, lon |-> NULL]
Found(lat, lon) == [found |-> TRUE, lat |-> lat, lon |-> lon]

\* RegionBuilder.from_address: None when the geocoder finds nothing, else a
\* circle of the radius given around the first result
from_address(results, radius_m) ==
  IF ~results.found
  THEN Built(None, NoRegion)
  ELSE Built("region", Shape(CIRCLE, results.lat, results.lon, radius_m, <<>>))

\* RegionBuilder.from_polygon
from_polygon(coordinates) ==
  IF Len(coordinates) < 3
  THEN Built("ValueError", NoRegion)
  ELSE Built("region", Shape(POLYGON, NULL, NULL, NULL, coordinates))

\* RegionBuilder.from_bounding_box
from_bounding_box(sw, ne) ==
  Built("region", Shape(BOUNDING_BOX, NULL, NULL, NULL, <<sw, ne>>))

\* the builder call of create_region_from_address, _polygon, _bounding_box
build(given) ==
  CASE given.type = "address" -> from_address(given.center, given.radius_m)
    [] given.type = "polygon" -> from_polygon(given.coordinates)
    [] given.type = "bbox" -> from_bounding_box(given.coordinates[1], given.coordinates[2])

\* a save that stores the vertex list with the row
_save_region_whole(region) == region

\* RegionMonitor._save_region: the row its INSERT writes (shape_type,
\* center_lat, center_lon, radius_m; `coordinates' is not among the columns)
_save_region(region) ==
  [shape_type |-> region.shape_type, center_lat |-> region.center_lat,
   center_lon |-> region.center_lon, radius_m |-> region.radius_m]

\* what the callers of the create operations ask for
Requested ==
  { [type |-> "address", center |-> c, radius_m |-> r, coordinates |-> <<>>] :
      c \in {NotFound, Found(2, 2)}, r \in {0, 1} }
  \cup
  { [type |-> "polygon", center |-> NotFound, radius_m |-> NULL, coordinates |-> ring] :
      ring \in { << <<0, 0>>, <<1, 1>> >>, << <<0, 0>>, <<0, 3>>, <<3, 0>> >> } }
  \cup
  { [type |-> "bbox", center |-> NotFound, radius_m |-> NULL,
     coordinates |-> << <<0, 0>>, <<3, 3>> >>] }

\* create_region_from_*: when the builder gives no region the call ends
\* there (it returns None or the ValueError leaves it); else _save_region
\* and the initial scan follow
create_region_from(q, m, given, auto_start) ==
  IF build(given).result = "region"
  THEN create_region(q, m, _save_region(build(given).region), auto_start)
  ELSE /\ m \in Monitors
       /\ FreeReq(q)
       /\ nRegions < MaxRegions
       /\ call' = [fn |-> "create_region", arg |-> given, ret |-> build(given).result,
                   done |-> TRUE]
       /\ UNCHANGED <<overpass, cacheVars, progVars>>

\* a DELETE that matches no row
DeleteFrom_none(regs, region_id) == regs

\* DELETE FROM regions.geo_regions WHERE id = :region_id
DeleteFrom(regs, region_id) == [regs EXCEPT ![region_id] = NoRegion]

\* delete_region up to its first await: `await task' inside stop_monitoring
\* when the region is in the map of the instance (wait # 0), else
\* db.execute of the DELETE (wait = 0)
delete_region(q, m, region_id) ==
  /\ m \in Monitors
  /\ FreeReq(q)
  /\ LET o == RunStops(m, <<region_id>>, active_monitors, tasks) IN
     /\ active_monitors' = o.am
     /\ tasks' = o.ts
     /\ reqs' = [reqs EXCEPT ![q] = [NoReq EXCEPT !.kind = "delete", !.monitor = m,
                                                  !.region_id = region_id,
                                                  !.wait = o.wait]]
  /\ UNCHANGED <<auxVars, nMonitors, nTasks, dbVars, baseline, absorbed>>

\* delete_region goes on: after `await task' the entry is deleted from the
\* map (KeyError when it is gone) and the DELETE is issued; after the DELETE,
\* which takes the alerts of the region with it, the commit and the return
DeleteResume(q) ==
  /\ reqs[q].kind = "delete"
  /\ LET m == reqs[q].monitor
         region_id == reqs[q].region_id
     IN  IF reqs[q].wait # 0
         THEN /\ Finished(tasks, reqs[q].wait)
              /\ IF InMap(active_monitors[m], region_id)
                 THEN /\ active_monitors' = [active_monitors EXCEPT ![m] = DictDel(@, region_id)]
                      /\ reqs' = [reqs EXCEPT ![q].wait = 0]
                 ELSE /\ reqs' = [reqs EXCEPT ![q] = NoReq]
                      /\ UNCHANGED active_monitors
              /\ UNCHANGED <<geo_regions, region_alerts, last_checked>>
         ELSE /\ geo_regions' = DeleteFrom(geo_regions, region_id)
              /\ region_alerts' = cascade(region_alerts, DeleteFrom(geo_regions, region_id))
              /\ last_checked' = IF RegionMissing(DeleteFrom(geo_regions, region_id)[region_id])
                                 THEN [last_checked EXCEPT ![region_id] = NULL]
                                 ELSE last_checked
              /\ reqs' = [reqs EXCEPT ![q] = NoReq]
              /\ UNCHANGED active_monitors
  /\ UNCHANGED <<auxVars, nMonitors, nTasks, tasks, nRegions, is_active, detecciones, changes,
                 clock, baseline, absorbed>>

\* deactivate_region up to its first await, as delete_region
deactivate_region(q, m, region_id) ==
  /\ m \in Monitors
  /\ FreeReq(q)
  /\ LET o == RunStops(m, <<region_id>>, active_monitors, tasks) IN
     /\ active_monitors' = o.am
     /\ tasks' = o.ts
     /\ reqs' = [reqs EXCEPT ![q] = [NoReq EXCEPT !.kind = "deactivate", !.monitor = m,
                                                  !.region_id = region_id,
                                                  !.wait = o.wait]]
  /\ UNCHANGED <<auxVars, nMonitors, nTasks, dbVars, baseline, absorbed>>

\* deactivate_region goes on: after `await task' the entry is deleted from
\* the map (KeyError when it is gone) and the UPDATE is issued; the UPDATE sets
\* the column is_active of the region, which neither _get_region's WHERE nor
\* scan_region nor the loop reads, then the commit and the return
DeactivateResume(q) ==
  /\ reqs[q].kind = "deactivate"
  /\ LET m == reqs[q].monitor
         region_id == reqs[q].region_id
     IN  IF reqs[q].wait # 0
         THEN /\ Finished(tasks, reqs[q].wait)
              /\ IF InMap(active_monitors[m], region_id)
                 THEN /\ active_monitors' = [active_monitors EXCEPT ![m] = DictDel(@, region_id)]
                      /\ reqs' = [reqs EXCEPT ![q].wait = 0]
                 ELSE /\ reqs' = [reqs EXCEPT ![q] = NoReq]
                      /\ UNCHANGED active_monitors
         ELSE /\ reqs' = [reqs EXCEPT ![q] = NoReq]
              /\ UNCHANGED active_monitors
  /\ UNCHANGED <<auxVars, nMonitors, nTasks, tasks, dbVars, baseline, absorbed>>

\* ------------------------------------------------------------------------
\* The ingestion side (scrapers, loaders) writing to the listing tables
\* ------------------------------------------------------------------------
Deactivated == {2}
LoaderWrites == {[id |-> 1, score |-> 55, osm_match_id |-> NULL]}

\* a detection written with the match its loader resolved
MatchWrites == {[id |-> 3, score |-> 60, osm_match_id |-> 2]}

ListingDeactivated(i) ==
  /\ changes < MaxChanges
  /\ is_active[i]
  /\ is_active' = [is_active EXCEPT ![i] = FALSE]
  /\ changes' = changes + 1
  /\ UNCHANGED <<auxVars, nMonitors, active_monitors, nTasks, tasks, reqs, nRegions, geo_regions,
                 last_checked, detecciones, region_alerts, clock, baseline, absorbed>>

DetectionLoaded(w) ==
  /\ changes < MaxChanges
  /\ detecciones[w.id].score # w.score
  /\ detecciones' = [detecciones EXCEPT ![w.id] =
                       [score |-> w.score, status |-> _get_status_for_score(w.score),
                        osm_match_id |-> w.osm_match_id]]
  /\ changes' = changes + 1
  /\ UNCHANGED <<auxVars, nMonitors, active_monitors, nTasks, tasks, reqs, nRegions, geo_regions,
                 last_checked, is_active, region_alerts, clock, baseline, absorbed>>

\* ------------------------------------------------------------------------
\* Specifications
\* ------------------------------------------------------------------------
\* the scheduler: monitors, their loop tasks, stop and stop_all
Next ==
  \/ RegionMonitorInit
  \/ \E m \in MonitorIds, r \in RegionIds, h \in IntervalHours : start_monitoring(m, r, h)
  \/ \E q \in ReqIds, m \in MonitorIds, r \in RegionIds : stop_monitoring(q, m, r)
  \/ \E q \in ReqIds, m \in MonitorIds : stop_all_monitoring(q, m)
  \/ \E q \in ReqIds : StopResume(q)
  \/ \E t \in TaskIds : TaskRun(t)
  \/ \E t \in TaskIds : TaskScanStep(t)
  \/ \E t \in TaskIds : TaskScanFail(t)
  \/ \E t \in TaskIds : TaskWake(t)
  \/ \E t \in TaskIds : TaskCancelled(t)

Spec == Init /\ [][Next]_vars

\* the scanner: the scans of MaxScanLoops monitor loops, manual scans and the
\* ingestion side
ScanNext ==
  \/ nMonitors < MaxScanLoops /\ RegionMonitorInit
  \/ \E m \in MonitorIds, r \in RegionIds :
        nTasks < MaxScanLoops /\ start_monitoring(m, r, 24)
  \/ \E q \in ReqIds, r \in RegionIds : scan_region(q, r)
  \/ \E q \in ReqIds : ReqScanStep(q)
  \/ \E q \in ReqIds : ReqScanFail(q)
  \/ \E t \in TaskIds : TaskRun(t)
  \/ \E t \in TaskIds : TaskScanStep(t)
  \/ \E t \in TaskIds : TaskScanFail(t)
  \/ \E t \in TaskIds : TaskWake(t)
  \/ \E i \in Deactivated : ListingDeactivated(i)
  \/ \E w \in LoaderWrites : DetectionLoaded(w)

ScanSpec == Init /\ [][ScanNext]_vars

\* the region store: regions are created and deleted on RegionMonitor
\* instances of their own while one monitor loop scans
StoreNext ==
  \/ RegionMonitorInit
  \/ \E m \in MonitorIds, r \in RegionIds :
        nTasks < MaxScanLoops /\ start_monitoring(m, r, 24)
  \/ \E q \in ReqIds, m \in MonitorIds, given \in Requested :
        create_region_from(q, m, given, FALSE)
  \/ \E q \in ReqIds, m \in MonitorIds, r \in RegionIds : delete_region(q, m, r)
  \/ \E q \in ReqIds : DeleteResume(q)
  \/ \E q \in ReqIds : ReqScanStep(q)
  \/ \E q \in ReqIds : ReqScanFail(q)
  \/ \E t \in TaskIds : TaskRun(t)
  \/ \E t \in TaskIds : TaskScanStep(t)
  \/ \E t \in TaskIds : TaskScanFail(t)
  \/ \E t \in TaskIds : TaskWake(t)
  \/ \E t \in TaskIds : TaskCancelled(t)

StoreSpec == Init /\ [][StoreNext]_vars

\* regions are deleted and deactivated on RegionMonitor instances while the
\* loops started on these or other instances run
RetireNext ==
  \/ RegionMonitorInit
  \/ \E m \in MonitorIds, r \in RegionIds :
        nTasks < MaxScanLoops /\ start_monitoring(m, r, 24)
  \/ \E q \in ReqIds, m \in MonitorIds, r \in RegionIds : delete_region(q, m, r)
  \/ \E q \in ReqIds : DeleteResume(q)
  \/ \E q \in ReqIds, m \in MonitorIds, r \in RegionIds : deactivate_region(q, m, r)
  \/ \E q \in ReqIds : DeactivateResume(q)
  \/ \E t \in TaskIds : TaskRun(t)
  \/ \E t \in TaskIds : TaskScanStep(t)
  \/ \E t \in TaskIds : TaskScanFail(t)
  \/ \E t \in TaskIds : TaskWake(t)
  \/ \E t \in TaskIds : TaskCancelled(t)

RetireSpec == Init /\ [][RetireNext]_vars

\* time passes on the database server
Tick ==
  /\ clock < MaxClock
  /\ clock' = clock + 1
  /\ UNCHANGED <<auxVars, nMonitors, active_monitors, nTasks, tasks, reqs, nRegions, geo_regions,
                 last_checked, is_active, detecciones, region_alerts, changes, baseline,
                 absorbed>>

\* the listing table with every listing on offer, or with every listing
\* withdrawn
ClockInit == \E offered \in BOOLEAN : InitWith(InitialRegion, offered, NoChurches, NoCall)

ClockNext ==
  \/ nMonitors < MaxScanLoops /\ RegionMonitorInit
  \/ \E m \in MonitorIds, r \in RegionIds :
        nTasks < MaxScanLoops /\ start_monitoring(m, r, 24)
  \/ \E q \in ReqIds, r \in RegionIds : scan_region(q, r)
  \/ \E q \in ReqIds : ReqScanStep(q)
  \/ \E q \in ReqIds : ReqScanFail(q)
  \/ \E t \in TaskIds : TaskRun(t)
  \/ \E t \in TaskIds : TaskScanStep(t)
  \/ \E t \in TaskIds : TaskScanFail(t)
  \/ \E t \in TaskIds : TaskWake(t)
  \/ Tick

ClockSpec == ClockInit /\ [][ClockNext]_vars

\* ------------------------------------------------------------------------
\* The pure functions, called on their own
\* ------------------------------------------------------------------------
\* the call of fn returns ret
Returns(fn, ret) ==
  /\ call.fn = fn
  /\ ~call.done
  /\ call' = [call EXCEPT !.ret = ret, !.done = TRUE]
  /\ UNCHANGED <<overpass, cacheVars, progVars>>

\* the program at rest with the call c to make
CallInit(c) == InitWith(InitialRegion, TRUE, NoChurches, c)

\* _get_status_for_score on every whole score
MaxScore == 100

StatusInit == \E score \in 0..MaxScore : CallInit(Call("_get_status_for_score", score))

StatusNext == Returns("_get_status_for_score", _get_status_for_score(call.arg))

StatusSpec == StatusInit /\ [][StatusNext]_vars

\* ReligiousPropertyScorer.score on listings of every make: titles over the
\* words below, two kinds of feature text, surfaces below and at the
\* minimum, with and without coordinates
TitleWords == {"convento", "religioso", "historico", "moderno", "garaje"}
Extras == { {}, {"techos altos"}, {"varias plantas"}, {"techos altos", "varias plantas"},
            {"capilla"} }
Surfaces == {NULL, 60, SURFACE.min_size_m2}

Listing(titulo, extras, m2, located) ==
  LET described == [titulo_completo |-> titulo, caracteristicas_extras |-> extras,
                    m2_construidos |-> m2]
  IN  IF located THEN described @@ [latitud |-> 1, longitud |-> 1] ELSE described

ScorerInit ==
  \E titulo \in SUBSET TitleWords, extras \in Extras, m2 \in Surfaces, located \in BOOLEAN :
    CallInit(Call("score", Listing(titulo, extras, m2, located)))

ScorerNext == Returns("score", scorer_score(call.arg))

ScorerSpec == ScorerInit /\ [][ScorerNext]_vars

\* ------------------------------------------------------------------------
\* Scans and scoring while the Overpass service changes
\* ------------------------------------------------------------------------
\* the Overpass service goes from one behaviour to another: no elements,
\* two places of worship, an element without coordinates, or a failure
OsmAnswers ==
  { NoChurches,
    Answer("ok", <<Element("node", 1, {"san", "pedro"}, 2, 3, NoCenter),
                   Element("way", 2, {"sin", "nombre"}, NULL, NULL, Center(2, 2))>>),
    Answer("ok", <<Element("node", 1, {"san", "pedro"}, 2, 3, NoCenter),
                   Element("node", 4, {"ermita"}, NULL, NULL, NoCenter)>>) }
  \cup OverpassFailures

OverpassChanges(answer) ==
  /\ overpass # answer
  /\ overpass' = answer
  /\ UNCHANGED <<call, cacheVars, progVars>>

\* a stored circle around listing 3, the listing with both coordinates
\* other than 0
ChurchRegion == [shape_type |-> CIRCLE, center_lat |-> 2, center_lon |-> 2, radius_m |-> 1]

\* the scorer is called as well, on a listing with or without coordinates
OsmInit ==
  \E answer \in OsmAnswers, located \in BOOLEAN :
    InitWith(ChurchRegion, TRUE, answer, Call("score", Listing({"religioso"}, {}, NULL, located)))

OsmNext ==
  \/ nMonitors < MaxScanLoops /\ RegionMonitorInit
  \/ \E m \in MonitorIds, r \in RegionIds :
        nTasks < MaxScanLoops /\ start_monitoring(m, r, 24)
  \/ \E q \in ReqIds, r \in RegionIds : scan_region(q, r)
  \/ \E q \in ReqIds : ReqScanStep(q)
  \/ \E q \in ReqIds : ReqScanFail(q)
  \/ \E t \in TaskIds : TaskRun(t)
  \/ \E t \in TaskIds : TaskScanStep(t)
  \/ \E t \in TaskIds : TaskScanFail(t)
  \/ \E t \in TaskIds : TaskWake(t)
  \/ \E answer \in OsmAnswers : OverpassChanges(answer)
  \/ Returns("score", scorer_score(call.arg))

OsmSpec == OsmInit /\ [][OsmNext]_vars

\* scans of the region around listing 3 while the Overpass service changes
\* and the loader of the listing stores the match it resolved
AlertInit == \E answer \in OsmAnswers : InitWith(ChurchRegion, TRUE, answer, NoCall)

AlertNext ==
  \/ nMonitors < MaxScanLoops /\ RegionMonitorInit
  \/ \E m \in MonitorIds, r \in RegionIds :
        nTasks < MaxScanLoops /\ start_monitoring(m, r, 24)
  \/ \E q \in ReqIds, r \in RegionIds : scan_region(q, r)
  \/ \E q \in ReqIds : ReqScanStep(q)
  \/ \E q \in ReqIds : ReqScanFail(q)
  \/ \E t \in TaskIds : TaskRun(t)
  \/ \E t \in TaskIds : TaskScanStep(t)
  \/ \E t \in TaskIds : TaskScanFail(t)
  \/ \E t \in TaskIds : TaskWake(t)
  \/ \E answer \in OsmAnswers : OverpassChanges(answer)
  \/ \E w \in MatchWrites : DetectionLoaded(w)

AlertSpec == AlertInit /\ [][AlertNext]_vars

\* ------------------------------------------------------------------------
\* ETLRedisCache: deduplication and the distributed lock
\* ------------------------------------------------------------------------
\* SETEX / SET of a key by client c
SetKey(keys, key, c) == [keys EXCEPT ![key] = [present |-> TRUE, owner |-> c]]

\* DEL of a key, whoever set it
DelKey(keys, key) == [keys EXCEPT ![key] = NoKey]

\* EXISTS key
exists(keys, key) == keys[key].present

\* check_duplicate(portal, id_portal): the call starts and sends EXISTS
check_duplicate(c) ==
  /\ clients[c].pc = "idle"
  /\ clients[c].calls < MaxCalls
  /\ clients' = [clients EXCEPT ![c].pc = "exists", ![c].calls = @ + 1,
                                ![c].returned = FALSE,
                                ![c].late = \E o \in ClientIds : clients[o].news > 0]
  /\ UNCHANGED <<redis, overpass, call, progVars>>

\* the answer to EXISTS arrives: an existing key returns True, otherwise the
\* call goes on to send SETEX
DedupExists(c) ==
  /\ clients[c].pc = "exists"
  /\ clients' = IF exists(redis, "dedup")
                THEN [clients EXCEPT ![c].pc = "idle", ![c].returned = TRUE,
                                     ![c].ret = TRUE]
                ELSE [clients EXCEPT ![c].pc = "setex"]
  /\ UNCHANGED <<redis, overpass, call, progVars>>

\* SETEX is executed and the call returns False
DedupSetex(c) ==
  /\ clients[c].pc = "setex"
  /\ redis' = SetKey(redis, "dedup", c)
  /\ clients' = [clients EXCEPT ![c].pc = "idle", ![c].returned = TRUE,
                                ![c].ret = FALSE, ![c].news = @ + 1]
  /\ UNCHANGED <<overpass, call, progVars>>

\* the time to live of a key runs out: the server removes it, and the lease
\* of the client that set it is over
Expire(key) ==
  /\ redis[key].present
  /\ redis.expiries < MaxExpiries
  /\ redis' = [DelKey(redis, key) EXCEPT !.expiries = @ + 1]
  /\ clients' = [c \in ClientIds |->
                   IF redis[key].owner = c
                   THEN [clients[c] EXCEPT !.lease = FALSE]
                   ELSE clients[c]]
  /\ UNCHANGED <<overpass, call, progVars>>

CacheInit == CallInit(NoCall)

DedupNext ==
  \/ \E c \in ClientIds : check_duplicate(c)
  \/ \E c \in ClientIds : DedupExists(c)
  \/ \E c \in ClientIds : DedupSetex(c)
  \/ Expire("dedup")

DedupSpec == CacheInit /\ [][DedupNext]_vars

\* acquire_lock(lock_name): the call starts and sends SET NX EX; a blocking call
\* sends it again every 0.1 s until blocking_timeout has passed
acquire_lock(c) ==
  /\ clients[c].pc = "idle"
  /\ clients[c].calls < MaxCalls
  /\ clients' = [clients EXCEPT ![c].pc = "set", ![c].calls = @ + 1,
                                ![c].returned = FALSE]
  /\ UNCHANGED <<redis, overpass, call, progVars>>

\* SET NX EX is executed: it sets an absent key and the call returns True; with
\* the key present it sets nothing and the call returns False (a blocking call
\* after its last attempt)
LockSet(c) ==
  /\ clients[c].pc = "set"
  /\ IF redis.lock.present
     THEN /\ clients' = [clients EXCEPT ![c].pc = "idle", ![c].returned = TRUE,
                                        ![c].ret = FALSE]
          /\ UNCHANGED redis
     ELSE /\ redis' = SetKey(redis, "lock", c)
          /\ clients' = [clients EXCEPT ![c].pc = "held", ![c].returned = TRUE,
                                        ![c].ret = TRUE, ![c].lease = TRUE]
  /\ UNCHANGED <<overpass, call, progVars>>

\* release_lock(lock_name) by a client that acquire_lock answered True: the call
\* starts and sends DEL
release_lock(c) ==
  /\ clients[c].pc = "held"
  /\ clients' = [clients EXCEPT ![c].pc = "delete", ![c].lease = FALSE]
  /\ UNCHANGED <<redis, overpass, call, progVars>>

\* DEL is executed, whatever the key holds
LockDelete(c) ==
  /\ clients[c].pc = "delete"
  /\ redis' = DelKey(redis, "lock")
  /\ clients' = [clients EXCEPT ![c].pc = "idle"]
  /\ UNCHANGED <<overpass, call, progVars>>

LockNext ==
  \/ \E c \in ClientIds : acquire_lock(c)
  \/ \E c \in ClientIds : LockSet(c)
  \/ \E c \in ClientIds : release_lock(c)
  \/ \E c \in ClientIds : LockDelete(c)
  \/ Expire("lock")

LockSpec == CacheInit /\ [][LockNext]_vars

\* OverpassClient.find_churches_nearby around two points, for every answer
\* of up to MaxElements elements and for every failure
Answers ==
  { Answer("ok", elements) :
      elements \in UNION { [1..n -> Elements] : n \in 0..MaxElements } }
  \cup OverpassFailures

QueryPoints == { [lat |-> 2, lon |-> 2], [lat |-> 1, lon |-> 1] }

ChurchInit ==
  \E answer \in Answers, at \in QueryPoints :
    CallInit(Call("find_churches_nearby", [answer |-> answer, lat |-> at.lat, lon |-> at.lon]))

ChurchNext ==
  Returns("find_churches_nearby",
          find_churches_nearby(call.arg.answer, call.arg.lat, call.arg.lon))

ChurchSpec == ChurchInit /\ [][ChurchNext]_vars

\* ------------------------------------------------------------------------
\* IdealistaOSMMatcher
\* ------------------------------------------------------------------------
\* str.lower, word by word
lower_word(w) ==
  CASE w = "Iglesia" -> "iglesia"
    [] w = "San" -> "san"
    [] w = "Pedro" -> "pedro"
    [] w = "Santa" -> "santa"
    [] w = "Ana" -> "ana"
    [] OTHER -> w

lower(text) == { lower_word(w) : w \in text }

\* a in b for two texts: the words of a are among those of b (the empty text
\* is in every text)
substring(a, b) == a \subseteq b

\* a matcher that never matches by name
name_matches_never(church_name, titulo) == FALSE

\* if church_name in titulo or titulo in church_name
name_matches(church_name, titulo) ==
  substring(church_name, titulo) \/ substring(titulo, church_name)

\* OSMMatchResult, and the None of find_match
OSMMatchResult(osm_church, confidence) == [osm_church |-> osm_church, confidence |-> confidence]

NoMatch == OSMMatchResult(NoChurch, 0)

\* IdealistaOSMMatcher.find_match
find_match(inmueble, osm_churches) ==
  IF osm_churches = <<>> THEN NoMatch
  ELSE LET titulo == lower(Get(inmueble, "titulo", {}))
           named == { k \in DOMAIN osm_churches :
                        name_matches(lower(osm_churches[k].name), titulo) }
           closest == osm_churches[1]
       IN  IF named # {}
           THEN OSMMatchResult(osm_churches[CHOOSE k \in named : \A j \in named : k <= j], 95)
           ELSE IF closest.distance < 50 THEN OSMMatchResult(closest, 80)
           ELSE IF closest.distance < 150 THEN OSMMatchResult(closest, 60)
           ELSE NoMatch

\* find_match on every title below against every list of up to
\* MaxCandidates candidates, closest first
Titles == { {}, {"piso"}, {"Iglesia", "San", "Pedro"}, {"ana"} }
ChurchNames == { {"san", "pedro"}, {"Santa", "Ana"}, {"sin", "nombre"} }
Distances == {0, 49, 50, 149, 150, 200}

Candidates ==
  { OSMChurch(1, "node", name, 0, 0, distance) : name \in ChurchNames, distance \in Distances }

ClosestFirst(churches) ==
  \A j, k \in DOMAIN churches : j < k => churches[j].distance <= churches[k].distance

CandidateLists ==
  { churches \in UNION { [1..n -> Candidates] : n \in 0..MaxCandidates } :
      ClosestFirst(churches) }

MatchInit ==
  \E titulo \in Titles, churches \in CandidateLists :
    CallInit(Call("find_match", [inmueble |-> [titulo |-> titulo], osm_churches |-> churches]))

MatchNext == Returns("find_match", find_match(call.arg.inmueble, call.arg.osm_churches))

MatchSpec == MatchInit /\ [][MatchNext]_vars

\* ------------------------------------------------------------------------
\* IdealistaDetectionLoader
\* ------------------------------------------------------------------------
\* config.scoring['weights'], the two the match adjustment names
weights == [osm_match_exact |-> 30, osm_match_nearby |-> 15]

\* the dict _calculate_score builds from the listing
loader_data(inmueble) ==
  [titulo |-> inmueble.titulo, descripcion |-> {}, caracteristicas_basicas |-> {},
   caracteristicas_extras |-> {}, lat |-> inmueble.geo.lat, lon |-> inmueble.geo.lon]

\* IdealistaDetectionLoader._calculate_score
_calculate_score(inmueble) == scorer_score(loader_data(inmueble))

\* a scorer that carries the configured weights
scorer_has_weights_always == TRUE

\* self.scorer.weights: ReligiousPropertyScorer.__init__ sets no attribute
scorer_has_weights == FALSE

\* the outcome of load: what it returned or that it raised, and the score
\* and evidence it had reached
Loaded(out, score, evidences) == [out |-> out, score |-> score, evidences |-> evidences]

\* IdealistaDetectionLoader.load of a listing the dedup check found new or
\* already seen, with the answer the Overpass service gives and the
\* configured threshold
load(inmueble, is_duplicate, answer, threshold) ==
  LET scored == _calculate_score(inmueble)
      located == /\ inmueble.geo.lat # NULL /\ inmueble.geo.lat # 0
                 /\ inmueble.geo.lon # NULL /\ inmueble.geo.lon # 0
      osm_churches == find_churches_nearby(answer, inmueble.geo.lat, inmueble.geo.lon)
      osm_match == find_match([titulo |-> inmueble.titulo, lat |-> inmueble.geo.lat,
                               lon |-> inmueble.geo.lon], osm_churches)
      bonus == IF osm_match.confidence >= 90
               THEN weights.osm_match_exact ELSE weights.osm_match_nearby
      note == IF osm_match.confidence >= 90 THEN "Match OSM exacto" ELSE "Match OSM cercano"
  IN  IF is_duplicate THEN Loaded("False", 0, <<>>)
      ELSE IF scored.raised THEN Loaded("raise", 0, <<>>)
      ELSE IF scored.score < threshold THEN Loaded("False", scored.score, scored.evidences)
      ELSE IF ~located \/ osm_match = NoMatch
           THEN Loaded("True", scored.score, scored.evidences)
      ELSE IF ~scorer_has_weights THEN Loaded("raise", scored.score, scored.evidences)
      ELSE Loaded("True", Min(scored.score + bonus, 100), Append(scored.evidences, note))

\* load of listings with and without coordinates, under every answer of the
\* Overpass service, with DETECTION_THRESHOLD at its default and at 0
LoaderTitles == { {}, {"piso"}, {"convento"}, {"Iglesia", "San", "Pedro"} }
Positions == { [lat |-> NULL, lon |-> NULL], [lat |-> 2, lon |-> 2], [lat |-> 0, lon |-> 2] }
Thresholds == {0, detection_threshold}

LoaderInit ==
  \E titulo \in LoaderTitles, geo \in Positions, is_duplicate \in BOOLEAN,
     answer \in OsmAnswers, threshold \in Thresholds :
    CallInit(Call("load", [inmueble |-> [titulo |-> titulo, geo |-> geo],
                           is_duplicate |-> is_duplicate, answer |-> answer,
                           threshold |-> threshold]))

LoaderNext ==
  Returns("load", load(call.arg.inmueble, call.arg.is_duplicate, call.arg.answer,
                       call.arg.threshold))

LoaderSpec == LoaderInit /\ [][LoaderNext]_vars

\* ------------------------------------------------------------------------
\* GeoRegion on its own
\* ------------------------------------------------------------------------
MaxCoord == 3
MaxRadius == 2

\* from_coordinates
Circles ==
  { Shape(CIRCLE, c[1], c[2], r, <<>>) : c \in {<<0, 0>>, <<1, 2>>}, r \in 0..MaxRadius }

\* from_polygon: an open and a closed triangle and an open square
Polygons ==
  { Shape(POLYGON, NULL, NULL, NULL, ring) :
      ring \in { << <<0, 0>>, <<0, 3>>, <<3, 0>> >>,
                 << <<0, 0>>, <<0, 3>>, <<3, 0>>, <<0, 0>> >>,
                 << <<0, 0>>, <<0, 3>>, <<3, 3>>, <<3, 0>> >> } }

\* from_bounding_box
Boxes ==
  { Shape(BOUNDING_BOX, NULL, NULL, NULL, << sw, ne >>) :
      sw \in {<<0, 0>>, <<1, 1>>}, ne \in {<<3, 3>>, <<2, 3>>} }

\* GeoRegion(...) built directly, with too few coordinates for its shape
Malformed ==
  { Shape(POLYGON, NULL, NULL, NULL, << <<0, 0>>, <<1, 1>> >>),
    Shape(BOUNDING_BOX, NULL, NULL, NULL, << <<0, 0>> >>),
    Shape(ADMINISTRATIVE, NULL, NULL, NULL, <<>>) }

GeoInit ==
  \/ \E region \in Circles \cup Polygons \cup Boxes, lat \in 0..MaxCoord, lon \in 0..MaxCoord :
        CallInit(Call("contains_point", [region |-> region, lat |-> lat, lon |-> lon]))
  \/ \E region \in Circles \cup Polygons \cup Boxes \cup Malformed :
        CallInit(Call("to_wkt", [region |-> region]))

GeoNext ==
  \/ Returns("contains_point", contains_point(call.arg.region, call.arg.lat, call.arg.lon))
  \/ Returns("to_wkt", to_wkt(call.arg.region))

GeoSpec == GeoInit /\ [][GeoNext]_vars

\* from_coordinates near the line where the longitude turns over
RimCircles ==
  { Shape(CIRCLE, 0, c, r, <<>>) : c \in {3, 4}, r \in 1..MaxRadius }

\* get_bounding_box of every shape, with a point of the listing table to set
\* against the box
BoxInit ==
  \E region \in Circles \cup RimCircles \cup Polygons \cup Boxes,
     lat \in 0..MaxCoord, lon \in (1 - MaxCoord)..MaxCoord :
       CallInit(Call("get_bounding_box", [region |-> region, lat |-> lat, lon |-> lon]))

BoxNext ==
  Returns("get_bounding_box", get_bounding_box(call.arg.region))

BoxSpec == BoxInit /\ [][BoxNext]_vars

\* a database call awaited by the scan of task t ends, with an error or with
\* a result
TaskScan(t) == TaskScanFail(t) \/ TaskScanStep(t)

TaskProgress(t) ==
  TaskRun(t) \/ TaskScan(t) \/ TaskWake(t) \/ TaskCancelled(t)

\* one long-lived RegionMonitor, as in examples/region_monitor_example.py:
\* its loops are started, run, fail, retry and are stopped
LoopNext ==
  \/ nMonitors < MaxScanLoops /\ RegionMonitorInit
  \/ \E m \in MonitorIds, r \in RegionIds, h \in IntervalHours : start_monitoring(m, r, h)
  \/ \E q \in ReqIds, m \in MonitorIds, r \in RegionIds : stop_monitoring(q, m, r)
  \/ \E q \in ReqIds : StopResume(q)
  \/ \E t \in TaskIds : TaskProgress(t)

\* the event loop runs every task that is ready, every timer fires and every
\* database call ends
LoopSpec ==
  /\ Init
  /\ [][LoopNext]_vars
  /\ \A t \in TaskIds :
       /\ WF_vars(TaskRun(t))
       /\ WF_vars(TaskScan(t))
       /\ WF_vars(TaskWake(t))
       /\ WF_vars(TaskCancelled(t))

\* ------------------------------------------------------------------------
\* Statements
\* ------------------------------------------------------------------------
LiveTasksOf(region_id) == {t \in TaskIds : Live(t) /\ tasks[t].region_id = region_id}

EntriesOf(d, region_id) == {k \in DOMAIN d : d[k].region_id = region_id}

\* C1: in every reachable state at most one live monitor loop task exists per
\* region id, whatever the sequence of start, stop, stop_all and start
\* requests that arrive through the API (each on a RegionMonitor of its own).
C1_OneTaskPerRegion ==
  \A r \in RegionIds : Cardinality(LiveTasksOf(r)) <= 1

\* C2: start_monitoring on a region that already has a task in the instance's
\* map changes neither the map nor any task (no replacement, no restart, the
\* interval stays), and after any start the map holds exactly one entry for
\* the region.
C2_StartIdempotent ==
  [][\A m \in MonitorIds, r \in RegionIds, h \in IntervalHours :
       start_monitoring(m, r, h) =>
         /\ InMap(active_monitors[m], r) => UNCHANGED <<active_monitors, tasks, nTasks>>
         /\ Cardinality(EntriesOf(active_monitors'[m], r)) = 1]_vars

\* a start was absorbed by a map whose task, started with another interval,
\* is still running
C2_Witness ==
  /\ absorbed
  /\ \E m \in Monitors, r \in RegionIds :
       /\ InMap(active_monitors[m], r)
       /\ Live(TaskOf(active_monitors[m], r))
       /\ tasks[TaskOf(active_monitors[m], r)].interval_hours = 1

\* C3: when stop_monitoring returns for a region that had a task, that task
\* has finished and the region is no longer in the map; a finished task never
\* runs again; stop_monitoring for a region without a task changes nothing.
C3_StopCompletes ==
  [][/\ \A q \in ReqIds, m \in MonitorIds, r \in RegionIds :
          stop_monitoring(q, m, r) =>
            IF ~InMap(active_monitors[m], r)
            THEN UNCHANGED vars
            ELSE reqs' = reqs =>
                   /\ tasks'[TaskOf(active_monitors[m], r)].pc = "done"
                   /\ ~InMap(active_monitors'[m], r)
     /\ \A q \in ReqIds :
          (/\ StopResume(q)
           /\ reqs[q].kind = "stop"
           /\ InMap(active_monitors[reqs[q].monitor], reqs[q].region_id)) =>
            /\ tasks'[reqs[q].wait].pc = "done"
            /\ ~InMap(active_monitors'[reqs[q].monitor], reqs[q].region_id)
     /\ \A t \in TaskIds : tasks[t].pc = "done" => tasks'[t] = tasks[t]]_vars

\* a stop has returned: the task it cancelled is finished and unmapped
C3_Witness ==
  \E t \in TaskIds :
    /\ tasks[t].pc = "done"
    /\ ~InMap(active_monitors[tasks[t].monitor], tasks[t].region_id)

\* C4: a failed scan leaves the loop task alive and mapped, waiting the fixed
\* backoff of 300 seconds, not the configured interval; after the wait the
\* loop calls scan again; so unless the region is stopped a scan is always
\* eventually retried.
C4_RetryAfterFailure ==
  /\ [][\A t \in TaskIds :
          /\ (TaskScanFail(t) \/ (TaskScanStep(t) /\ tasks'[t].pc \notin {"scan", "sleep"})) =>
               /\ tasks'[t].pc = "backoff"
               /\ tasks'[t].delay = BackoffSeconds
               /\ active_monitors' = active_monitors
          /\ (tasks[t].pc = "backoff" /\ tasks'[t].pc # "backoff" /\ ~tasks[t].must_cancel) =>
               tasks'[t].pc = "scan"]_vars
  /\ \A t \in TaskIds :
       (tasks[t].pc = "backoff") ~>
         (tasks[t].pc = "scan" \/ tasks[t].must_cancel \/ tasks[t].pc = "done")

\* a loop with a 24 hour interval waits 300 seconds after a failed scan,
\* still mapped
C4_Witness ==
  \E t \in TaskIds :
    /\ tasks[t].pc = "backoff"
    /\ tasks[t].interval_hours = 24
    /\ tasks[t].delay = BackoffSeconds
    /\ InMap(active_monitors[tasks[t].monitor], tasks[t].region_id)

\* C5: a stop issued during a scan does not abort it: once the scan has begun
\* to process candidates, cancellation takes effect only after its alerts are
\* persisted; and after the cancellation request the loop starts no new sleep
\* and no new scan.
C5_ScanRunsToCompletion ==
  [][\A t \in TaskIds :
       /\ TaskCancelled(t) => tasks[t].f.pc \notin {"save_detection", "save_alerts"}
       /\ (tasks[t].must_cancel /\ tasks'[t] # tasks[t]) => tasks'[t].pc = "done"]_vars

\* C6: no two monitor loop tasks are inside a scan of the same region id at
\* the same time.
C6_NoConcurrentLoopScans ==
  \A t1, t2 \in TaskIds :
    (t1 # t2 /\ tasks[t1].pc = "scan" /\ tasks[t2].pc = "scan") =>
      tasks[t1].region_id # tasks[t2].region_id

\* C7: two scans of a region in succession, with no change to the listings in
\* between, leave as many alerts for the region after the second scan as
\* after the first: no later scan on the same data adds an alert.
C7_RepeatScanAddsNoAlert ==
  \A r \in RegionIds :
    baseline[r].ver = changes => AlertCount(region_alerts, r) = baseline[r].count

\* a second scan of a region with alerts has returned on unchanged data
C7_Witness ==
  \E r \in RegionIds :
    /\ baseline[r].ver = changes
    /\ baseline[r].n = 2
    /\ baseline[r].count > 0

IsPrefix(s1, s2) == Len(s1) <= Len(s2) /\ SubSeq(s2, 1, Len(s1)) = s1

SameListing(a, b) ==
  a.region_id = b.region_id /\ a.portal = b.portal /\ a.inmueble_id = b.inmueble_id

\* C8: the alert store never holds two alerts with the same region id, portal
\* and listing id, also when a loop scan and a manual scan of the region
\* overlap; the insert of alerts that exist already does not fail, it goes on
\* to the last_checked update and leaves the rows in the store as they were.
C8_OneAlertPerListing ==
  /\ [](\A j, k \in DOMAIN region_alerts :
          SameListing(region_alerts[j], region_alerts[k]) => j = k)
  /\ [][/\ \A t \in TaskIds :
             (TaskScanStep(t) /\ tasks[t].f.pc = "save_alerts") =>
               /\ tasks'[t].f.pc = "update_last_checked"
               /\ IsPrefix(region_alerts, region_alerts')
        /\ \A q \in ReqIds :
             (ReqScanStep(q) /\ reqs[q].f.pc = "save_alerts") =>
               /\ reqs'[q].f.pc = "update_last_checked"
               /\ IsPrefix(region_alerts, region_alerts')]_vars

\* a loop scan and a manual scan of the same region overlapped, both have
\* inserted the same alerts and the store holds each once
C8_Witness ==
  \E t \in TaskIds, q \in ReqIds :
    /\ tasks[t].pc = "scan"
    /\ reqs[q].kind = "scan"
    /\ reqs[q].region_id = tasks[t].region_id
    /\ tasks[t].f.pc = "update_last_checked"
    /\ reqs[q].f.pc = "update_last_checked"
    /\ tasks[t].f.alerts # <<>>
    /\ reqs[q].f.alerts = tasks[t].f.alerts
    /\ AlertCount(region_alerts, tasks[t].region_id) = Len(tasks[t].f.alerts)

\* C9: every alert a scan creates has a score that meets or exceeds the
\* detection threshold; a listing inside the region with a lower score,
\* stored or computed by the scan, yields no alert.
C9_AlertsMeetThreshold ==
  \A k \in DOMAIN region_alerts : region_alerts[k].score >= detection_threshold

\* C10: every alert a scan creates is for a listing whose coordinates pass
\* contains_point of the region; a listing in the bounding box but outside
\* the region yields no alert.
C10_AlertsInsideRegion ==
  \A k \in DOMAIN region_alerts :
    contains_point(geo_regions[region_alerts[k].region_id],
                   region_alerts[k].lat, region_alerts[k].lon)

\* a scan whose candidates included a listing of the bounding box that lies
\* outside the circle has saved its alerts
C10_Witness ==
  \E t \in TaskIds :
    /\ tasks[t].f.pc = "update_last_checked"
    /\ tasks[t].f.alerts # <<>>
    /\ \E i \in DOMAIN tasks[t].f.rows :
         ~contains_point(tasks[t].f.region, tasks[t].f.rows[i].lat, tasks[t].f.rows[i].lon)
    /\ AlertCount(region_alerts, tasks[t].region_id) = Len(tasks[t].f.alerts)

\* the scan of loop task t fails in this step
TaskScanFails(t) ==
  \/ TaskScanFail(t)
  \/ /\ TaskScanStep(t)
     /\ Resume(tasks[t].f, tasks[t].region_id, geo_regions, is_active,
               detecciones, region_alerts, clock, overpass).out = "raise"

\* the scan of request q fails in this step
ReqScanFails(q) ==
  \/ ReqScanFail(q)
  \/ /\ ReqScanStep(q)
     /\ Resume(reqs[q].f, reqs[q].region_id, geo_regions, is_active,
               detecciones, region_alerts, clock, overpass).out = "raise"

\* C11: a scan that fails, at whatever step, has put no alert in the alert
\* store: the store after the failed scan is the store before it.
C11_FailedScanPersistsNothing ==
  [][/\ \A t \in TaskIds : TaskScanFails(t) => tasks[t].f.added = 0
     /\ \A q \in ReqIds : ReqScanFails(q) => reqs[q].f.added = 0]_vars

\* the scan of request q is at its first step, loading a region that has no
\* stored row
ReqLoadsMissing(q) ==
  /\ reqs[q].kind \in {"scan", "create"}
  /\ reqs[q].f.pc = "get_region"
  /\ geo_regions[reqs[q].region_id] = NoRegion

TaskLoadsMissing(t) ==
  /\ tasks[t].pc = "scan"
  /\ tasks[t].f.pc = "get_region"
  /\ geo_regions[tasks[t].region_id] = NoRegion

\* C12: the scan of an id with no stored region fails with the
\* region-not-found error at its first step, so before the listing query is
\* issued, and the detection store, the alert store and every region's
\* last_checked stay as they were.
C12_MissingRegionFails ==
  [][/\ \A q \in ReqIds :
          ReqLoadsMissing(q) /\ ReqScanStep(q) =>
            /\ LoadError(geo_regions[reqs[q].region_id]) = "ValueError: Region not found"
            /\ reqs'[q] = NoReq
            /\ UNCHANGED <<detecciones, region_alerts, last_checked>>
     /\ \A t \in TaskIds :
          TaskLoadsMissing(t) /\ TaskScanStep(t) =>
            /\ LoadError(geo_regions[tasks[t].region_id]) = "ValueError: Region not found"
            /\ tasks'[t].pc = "backoff"
            /\ tasks'[t].f.pc # "query"
            /\ UNCHANGED <<detecciones, region_alerts, last_checked>>]_vars

\* a manual scan of the missing region 2 is about to load it while the alert
\* store already holds alerts of region 1
C12_Witness ==
  \E q \in ReqIds : ReqLoadsMissing(q) /\ region_alerts # <<>>

\* the region whose scan (by a loop or by a request) returns in this step
ScanReturns(r) ==
  \/ \E t \in TaskIds :
       /\ TaskScanStep(t)
       /\ tasks[t].region_id = r
       /\ tasks[t].f.pc = "update_last_checked"
  \/ \E q \in ReqIds :
       /\ ReqScanStep(q)
       /\ reqs[q].region_id = r
       /\ reqs[q].f.pc = "update_last_checked"

\* a returning scan leaves the time of its return in last_checked
C13_SetToCurrentTime ==
  \A r \in RegionIds : ScanReturns(r) => last_checked'[r] = clock

\* a failing scan leaves last_checked as it was
C13_FailedScanKeeps ==
  /\ \A t \in TaskIds : TaskScanFails(t) => UNCHANGED last_checked
  /\ \A q \in ReqIds : ReqScanFails(q) => UNCHANGED last_checked

\* last_checked of a region never goes back (NULL is before every time)
C13_NeverDecreases ==
  \A r \in RegionIds : last_checked'[r] >= last_checked[r]

\* C13: every scan that completes sets the region's last_checked to the
\* current time, with or without alerts; a failed scan leaves last_checked
\* unchanged; and the last_checked of a region never decreases.
C13_LastCheckedMonotone ==
  [][C13_SetToCurrentTime /\ C13_FailedScanKeeps /\ C13_NeverDecreases]_vars

\* C14: for every score in 0..100 the status is "confirmed" at 100,
\* "detected" from the threshold up to 99, "monitoring" above 0 and below
\* the threshold, and "not_detected" at 0.
C14_StatusOfScore ==
  call.fn = "_get_status_for_score" /\ call.done =>
    call.ret = IF call.arg = 100 THEN "confirmed"
               ELSE IF call.arg >= detection_threshold THEN "detected"
               ELSE IF call.arg > 0 THEN "monitoring"
               ELSE "not_detected"

\* the text the scorer searches for keywords
ScoredText(inmueble) == inmueble.titulo_completo \cup inmueble.caracteristicas_extras

\* C15: whatever the listing (keywords for and against, surface, feature
\* text, coordinates), a score the scoring engine returns is between 0 and
\* 100.
C15_ScoreInRange ==
  call.fn = "score" /\ call.done /\ ~call.ret.raised =>
    0 <= call.ret.score /\ call.ret.score <= 100

\* C16: a listing whose title or feature text holds an explicit keyword gets
\* exactly 100 and an evidence list of the explicit-match note alone: no
\* other factor is evaluated or recorded.
C16_ExplicitShortCircuits ==
  call.fn = "score" /\ call.done /\ ScoredText(call.arg) \cap EXPLICIT # {} =>
    /\ ~call.ret.raised
    /\ call.ret.score = 100
    /\ call.ret.evidences = <<"Keyword explicita (100 %)">>

\* alert a is the alert of listing i
AlertOf(a, i) == a.portal = Inmuebles[i].portal /\ a.inmueble_id = Inmuebles[i].id_portal

\* C17: with no OSM candidates nearby, the alert a scan of a circle region
\* makes for an unscored listing whose title holds an explicit keyword
\* ("Antiguo convento reformado") has score 100 and status "confirmed".
C17_ExplicitTitleConfirmed ==
  \A k \in DOMAIN region_alerts : \A i \in InmuebleIds :
    /\ AlertOf(region_alerts[k], i)
    /\ geo_regions[region_alerts[k].region_id].shape_type = CIRCLE
    /\ Inmuebles[i].titulo \cap EXPLICIT # {}
    /\ InitialDetecciones[i] = NoDeteccion
    /\ overpass = NoChurches
    => region_alerts[k].score = 100 /\ region_alerts[k].status = "confirmed"

\* the element of the answer that candidate c was made from
SourceOf(c, answer) ==
  { k \in DOMAIN answer.elements : answer.elements[k].id = c.osm_id }

\* C19: find_churches_nearby returns its candidates in ascending order of
\* distance to the query point, so the first is a closest one; the distance
\* of a candidate is measured to the element's own point for a node and to
\* its center for a way or relation.
C19_SortedByDistance ==
  call.fn = "find_churches_nearby" /\ call.done =>
    /\ \A j, k \in DOMAIN call.ret : j < k => call.ret[j].distance <= call.ret[k].distance
    /\ \A k \in DOMAIN call.ret : call.ret[1].distance <= call.ret[k].distance
    /\ \A k \in DOMAIN call.ret :
         \E n \in SourceOf(call.ret[k], call.arg.answer) :
           LET e == call.arg.answer.elements[n] IN
           call.ret[k].distance =
             IF e.type = "node"
             THEN _haversine_distance(call.arg.lat, call.arg.lon, e.lat, e.lon)
             ELSE _haversine_distance(call.arg.lat, call.arg.lon, e.center.lat, e.center.lon)

\* the answer listed a node before a nearer way, and both came back
C19_Witness ==
  /\ call.fn = "find_churches_nearby"
  /\ call.done
  /\ Len(call.ret) = 2
  /\ call.arg.answer.elements[1].type = "node"
  /\ call.arg.answer.elements[2].type = "way"
  /\ call.ret[1].osm_id = call.arg.answer.elements[2].id
  /\ call.ret[1].distance < call.ret[2].distance

\* the candidates of the call whose name is in the title, or the title in
\* the name, whatever the case of the letters
NamedInTitle ==
  { k \in DOMAIN call.arg.osm_churches :
      \/ lower(call.arg.osm_churches[k].name) \subseteq lower(call.arg.inmueble.titulo)
      \/ lower(call.arg.inmueble.titulo) \subseteq lower(call.arg.osm_churches[k].name) }

\* the result of find_match when the very-close tier reaches up to near and
\* the nearby tier up to far, each bound included or not
MatchTiers(within, near, far) ==
  LET churches == call.arg.osm_churches
      closest == churches[1]
  IN  IF churches = <<>> THEN NoMatch
      ELSE IF NamedInTitle # {}
      THEN OSMMatchResult(churches[CHOOSE k \in NamedInTitle : \A j \in NamedInTitle : k <= j],
                          95)
      ELSE IF closest.distance < near \/ (within /\ closest.distance = near)
      THEN OSMMatchResult(closest, 80)
      ELSE IF closest.distance < far \/ (within /\ closest.distance = far)
      THEN OSMMatchResult(closest, 60)
      ELSE NoMatch

\* C20 as stated: on candidates sorted closest-first find_match gives the
\* first candidate matched by name with confidence 95; else the closest with
\* 80 when it is within 50 m (50 m included); else the closest with 60 when
\* it is within 150 m (150 m included); else no match; no match for an empty
\* list.
C20_MatchTiersWithin ==
  call.fn = "find_match" /\ call.done => call.ret = MatchTiers(TRUE, 50, 150)

\* C20, amended: as above with the very-close tier for a closest candidate
\* nearer than 50 m and the nearby tier for one nearer than 150 m: at exactly
\* 50 m the tier is nearby, at exactly 150 m there is no match.
C20_MatchTiers ==
  call.fn = "find_match" /\ call.done => call.ret = MatchTiers(FALSE, 50, 150)

\* a closest candidate at exactly 50 m, not matched by name, came back in the
\* nearby tier
C20_Witness ==
  /\ call.fn = "find_match"
  /\ call.done
  /\ call.arg.osm_churches # <<>>
  /\ NamedInTitle = {}
  /\ call.arg.osm_churches[1].distance = 50
  /\ call.ret.confidence = 60

\* the proximity query fails: the request, its status or the parsing of the
\* answer (an element without coordinates)
QueryFails(answer) ==
  \/ answer \in OverpassFailures
  \/ \E k \in DOMAIN answer.elements :
       answer.elements[k].type = "node" /\ answer.elements[k].lat = NULL

\* the step of a scan, resumed in frame f for region_id while the proximity
\* query fails, is the step it would be with no place of worship nearby: it
\* does not raise, and the alerts it builds carry no OSM match
FailureIsNoChurch(f, region_id) ==
  LET o == Resume(f, region_id, geo_regions, is_active, detecciones, region_alerts,
                  clock, overpass)
  IN  /\ o = Resume(f, region_id, geo_regions, is_active, detecciones, region_alerts,
                    clock, NoChurches)
      /\ f.pc \in {"query", "save_detection"} =>
           /\ o.out # "raise"
           /\ \A k \in DOMAIN o.f.alerts :
                k > Len(f.alerts) =>
                  /\ o.f.alerts[k].osm_church_id = NULL
                  /\ o.f.alerts[k].osm_church_name = {}
                  /\ o.f.alerts[k].osm_distance_m = NULL

\* while the proximity query fails find_churches_nearby is empty for every
\* listing, and every scan step is the step made with no place of worship
C18_ScanGoesOn ==
  /\ \A i \in InmuebleIds :
       find_churches_nearby(overpass, Inmuebles[i].lat, Inmuebles[i].lon) = <<>>
  /\ \A q \in ReqIds : ReqScanStep(q) => FailureIsNoChurch(reqs[q].f, reqs[q].region_id)
  /\ \A t \in TaskIds : TaskScanStep(t) => FailureIsNoChurch(tasks[t].f, tasks[t].region_id)

\* the listing without its coordinates: nothing to look up
Unlocated(inmueble) ==
  [k \in DOMAIN inmueble \ {"latitud", "longitud"} |-> inmueble[k]]

\* while the proximity query fails, a call of the scorer returns, with the
\* score and the evidence the listing has without a proximity bonus
C18_ScoringGoesOn ==
  Returns("score", scorer_score(call.arg)) =>
    /\ ~call'.ret.raised
    /\ call'.ret = scorer_score(Unlocated(call.arg))

\* C18: a network, HTTP or parse failure of the proximity query makes
\* find_churches_nearby return the empty list and never raise, and scoring
\* and scanning go on exactly as with no place of worship nearby (no
\* proximity bonus, no OSM match on the alert) and do not fail.
C18_QueryFailureIsEmpty ==
  [][QueryFails(overpass) => C18_ScanGoesOn /\ C18_ScoringGoesOn]_vars

\* the match the loader resolves for the listing of the call
ResolvedMatch ==
  LET inmueble == call.arg.inmueble IN
  IF inmueble.geo.lat \in {NULL, 0} \/ inmueble.geo.lon \in {NULL, 0}
  THEN NoMatch
  ELSE find_match([titulo |-> inmueble.titulo],
                  find_churches_nearby(call.arg.answer, inmueble.geo.lat, inmueble.geo.lon))

\* the listing of the call is new and its score passes the threshold
ReachesMatching ==
  /\ ~call.arg.is_duplicate
  /\ ~_calculate_score(call.arg.inmueble).raised
  /\ _calculate_score(call.arg.inmueble).score >= call.arg.threshold

\* C21: when a match is resolved for a listing its score becomes
\* min(score + 30, 100) for a confidence of 90 or more and min(score + 15,
\* 100) otherwise, and one evidence string naming the place is appended;
\* with no match the score and the evidence are unchanged.
C21_MatchAdjustsScore ==
  call.fn = "load" /\ call.done /\ ReachesMatching =>
    LET scored == _calculate_score(call.arg.inmueble) IN
    IF ResolvedMatch = NoMatch
    THEN call.ret = Loaded("True", scored.score, scored.evidences)
    ELSE /\ call.ret.out = "True"
         /\ call.ret.score = Min(scored.score + (IF ResolvedMatch.confidence >= 90
                                                  THEN 30 ELSE 15), 100)
         /\ Len(call.ret.evidences) = Len(scored.evidences) + 1

\* which side of the line from a to b the point p lies on
Cross(a, b, p) == (b[1] - a[1]) * (p[2] - a[2]) - (b[2] - a[2]) * (p[1] - a[1])

\* the vertices of a ring, its closing copy left out
Vertices(ring) ==
  IF Len(ring) > 1 /\ ring[1] = ring[Len(ring)] THEN SubSeq(ring, 1, Len(ring) - 1) ELSE ring

\* the point is strictly inside the (convex) ring of a polygon, or strictly
\* between the corners of a bounding box
StrictlyInside(region, lat, lon) ==
  IF region.shape_type = BOUNDING_BOX
  THEN /\ region.coordinates[1][1] < lat /\ lat < region.coordinates[2][1]
       /\ region.coordinates[1][2] < lon /\ lon < region.coordinates[2][2]
  ELSE LET v == Vertices(region.coordinates)
           side(i) == Cross(v[i], v[(i % Len(v)) + 1], <<lat, lon>>)
       IN  \/ \A i \in 1..Len(v) : side(i) > 0
           \/ \A i \in 1..Len(v) : side(i) < 0

\* the point is outside the ring, not on it
StrictlyOutside(region, lat, lon) ==
  IF region.shape_type = BOUNDING_BOX
  THEN \/ lat < region.coordinates[1][1] \/ lat > region.coordinates[2][1]
       \/ lon < region.coordinates[1][2] \/ lon > region.coordinates[2][2]
  ELSE LET v == Vertices(region.coordinates)
           side(i) == Cross(v[i], v[(i % Len(v)) + 1], <<lat, lon>>)
       IN  \E i, j \in 1..Len(v) : side(i) > 0 /\ side(j) < 0

\* contains_point has answered for a region of one of the shapes
Answered(shapes) ==
  call.fn = "contains_point" /\ call.done /\ call.arg.region.shape_type \in shapes

\* C22: for a polygon or bounding-box region contains_point is true for every
\* point strictly inside the vertex ring and false for every point outside
\* it.
C22_RingContainment ==
  Answered({POLYGON, BOUNDING_BOX}) =>
    /\ StrictlyInside(call.arg.region, call.arg.lat, call.arg.lon) => call.ret
    /\ StrictlyOutside(call.arg.region, call.arg.lat, call.arg.lon) => ~call.ret

\* the squared distance from the center of the circle of the call to its point
CenterDistance2 ==
  (call.arg.lat - call.arg.region.center_lat) * (call.arg.lat - call.arg.region.center_lat)
  + (call.arg.lon - call.arg.region.center_lon) * (call.arg.lon - call.arg.region.center_lon)

\* C23: for every circle region contains_point is true for the center and
\* for every point no farther from the center than the radius, and false for
\* every point farther away.
C23_CircleContainment ==
  Answered({CIRCLE}) =>
    LET region == call.arg.region IN
    /\ call.arg.lat = region.center_lat /\ call.arg.lon = region.center_lon => call.ret
    /\ CenterDistance2 <= region.radius_m * region.radius_m => call.ret
    /\ CenterDistance2 > region.radius_m * region.radius_m => ~call.ret

\* a point on the rim of a circle, away from the center, was found inside
C23_Witness ==
  /\ Answered({CIRCLE})
  /\ CenterDistance2 = call.arg.region.radius_m * call.arg.region.radius_m
  /\ CenterDistance2 > 0
  /\ call.ret

\* to_wkt has answered for a polygon of at least 3 vertices
RingEmitted ==
  /\ call.fn = "to_wkt" /\ call.done
  /\ call.arg.region.shape_type = POLYGON
  /\ Len(call.arg.region.coordinates) >= 3

\* C24: for every polygon of at least 3 vertices to_wkt emits a ring whose
\* first and last pairs are identical; an open ring gets exactly one appended
\* copy of its first vertex, a closed ring none, and the region's own vertex
\* list is not modified.
C24_RingClosed ==
  RingEmitted =>
    LET ring == call.arg.region.coordinates
        open == ring[1] # ring[Len(ring)]
        pairs == call.ret.pairs
    IN  /\ call.ret.result = "text"
        /\ pairs[1] = pairs[Len(pairs)]
        /\ Len(pairs) = Len(ring) + (IF open THEN 1 ELSE 0)
        /\ \A i \in 1..Len(ring) : pairs[i] = <<ring[i][2], ring[i][1]>>
        /\ open => pairs[Len(pairs)] = <<ring[1][2], ring[1][1]>>
        /\ call.ret.coordinates = ring

\* an open ring was closed
C24_Witness ==
  /\ RingEmitted
  /\ call.arg.region.coordinates[1]
       # call.arg.region.coordinates[Len(call.arg.region.coordinates)]
  /\ Len(call.ret.pairs) = Len(call.arg.region.coordinates) + 1

\* the manual scan of request q returns in this step
ManualScanReturns(q) ==
  /\ ReqScanStep(q)
  /\ reqs[q].kind = "scan"
  /\ reqs[q].f.pc = "update_last_checked"

\* C28: a manual scan reports the number of alerts newly created by that
\* scan: alerts that existed for the region before it are not counted, so a
\* second manual scan with no data change reports 0 new alerts.
C28_ReportsNewAlerts ==
  [][\A q \in ReqIds :
       ManualScanReturns(q) => alerts_generated(reqs[q].f) = reqs[q].f.added]_vars

\* the candidates of frame f that lie inside its region and had no stored
\* score when the scan read them
Unscored(f) ==
  {k \in DOMAIN f.rows : f.rows[k].score = NULL /\ ~Outside(f.region, f.rows[k])}

\* C30: after a successful scan every candidate inside the region that had
\* no stored score has a detection record, keyed by listing id, with what
\* the scan computed for it.
C30_UnscoredGetDetection ==
  [][/\ \A t \in TaskIds :
          TaskScanStep(t) /\ tasks[t].f.pc = "update_last_checked" =>
            \A k \in Unscored(tasks[t].f) :
              detecciones'[tasks[t].f.rows[k].id] # NoDeteccion
     /\ \A q \in ReqIds :
          ReqScanStep(q) /\ reqs[q].f.pc = "update_last_checked" =>
            \A k \in Unscored(reqs[q].f) :
              detecciones'[reqs[q].f.rows[k].id] # NoDeteccion]_vars

\* the tasks of the other regions, and their entries in the maps, are after
\* the step what they were before it
OthersUntouched(region_id) ==
  /\ \A t \in TaskIds : tasks[t].region_id # region_id => tasks'[t] = tasks[t]
  /\ \A m \in MonitorIds :
       SelectSeq(active_monitors'[m], LAMBDA e : e.region_id # region_id)
         = SelectSeq(active_monitors[m], LAMBDA e : e.region_id # region_id)

\* C26: region loops are independent: a stop of region A, and a scan failure
\* or a cancellation inside the loop of region A, leave the task of every
\* other region running and its entry in the task map unchanged.
C26_LoopsIndependent ==
  [][/\ \A q \in ReqIds, m \in MonitorIds, r \in RegionIds :
          stop_monitoring(q, m, r) => OthersUntouched(r)
     /\ \A q \in ReqIds :
          StopResume(q) /\ reqs[q].kind = "stop" => OthersUntouched(reqs[q].region_id)
     /\ \A t \in TaskIds :
          TaskScanFails(t) \/ TaskCancelled(t) => OthersUntouched(tasks[t].region_id)]_vars

\* the loop of one region was stopped and has finished while the loop of
\* another region, started on the same instance, runs on and keeps its entry
C26_Witness ==
  \E m \in Monitors, a, b \in TaskIds :
    /\ tasks[a].monitor = m /\ tasks[b].monitor = m
    /\ tasks[a].region_id # tasks[b].region_id
    /\ tasks[a].pc = "done"
    /\ ~InMap(active_monitors[m], tasks[a].region_id)
    /\ Live(b) /\ ~tasks[b].must_cancel
    /\ InMap(active_monitors[m], tasks[b].region_id)
    /\ TaskOf(active_monitors[m], tasks[b].region_id) = b

\* no region of the list has a running task or an entry in the map of
\* instance m after the step
AllStopped(m, regions) ==
  \A k \in DOMAIN regions :
    /\ ~InMap(active_monitors'[m], regions[k])
    /\ \A t \in TaskIds : tasks'[t].region_id = regions[k] => tasks'[t].pc \in {"unused", "done"}

\* stop_all_monitoring of request q returns in this step, from its last
\* `await task'
StopAllReturns(q) ==
  /\ StopResume(q)
  /\ reqs[q].kind = "stop_all"
  /\ InMap(active_monitors[reqs[q].monitor], Head(reqs[q].todo))
  /\ reqs'[q] = NoReq

\* C27: stop_all_monitoring stops every region tracked when it is called, one
\* after another (a stop begins only after the task of the previous one has
\* finished), and when it returns none of those regions has a running task or
\* an entry in the task map.
C27_StopAllStopsAll ==
  [][/\ \A q \in ReqIds, m \in MonitorIds :
          stop_all_monitoring(q, m) /\ reqs' = reqs =>
            AllStopped(m, DictKeys(active_monitors[m]))
     /\ \A q \in ReqIds :
          StopAllReturns(q) => AllStopped(reqs[q].monitor, reqs[q].tracked)
     /\ \A q \in ReqIds :
          StopResume(q) /\ reqs[q].kind = "stop_all" /\ reqs'[q].kind = "stop_all" =>
            /\ tasks[reqs[q].wait].pc = "done"
            /\ reqs'[q].todo = Tail(reqs[q].todo)]_vars

\* the shape invariant of a stored region
ShapeInvariant(row) ==
  CASE row.shape_type = CIRCLE ->
         /\ row.center_lat # NULL /\ row.center_lon # NULL
         /\ row.radius_m # NULL /\ row.radius_m > 0
    [] row.shape_type = POLYGON ->
         "coordinates" \in DOMAIN row /\ Len(row.coordinates) >= 3
    [] row.shape_type = BOUNDING_BOX ->
         "coordinates" \in DOMAIN row /\ Len(row.coordinates) = 2
    [] OTHER -> TRUE

\* the shape asked for breaks the invariant of its kind
MalformedRequest(given) ==
  CASE given.type = "address" -> given.center.found /\ given.radius_m <= 0
    [] given.type = "polygon" -> Len(given.coordinates) < 3
    [] given.type = "bbox" -> Len(given.coordinates) # 2

\* C25: every region in the region store satisfies its shape invariant
\* (polygon: at least 3 vertices, bounding box: exactly 2 corner points,
\* circle: a center and a positive radius); a create operation given a
\* malformed shape fails with the invalid-geometry error and leaves the
\* region store unchanged.
C25_StoredShapesValid ==
  /\ [](\A r \in RegionIds :
          ~RegionMissing(geo_regions[r]) => ShapeInvariant(geo_regions[r]))
  /\ [][\A q \in ReqIds, m \in MonitorIds, given \in Requested :
          create_region_from(q, m, given, FALSE) /\ MalformedRequest(given) =>
            /\ UNCHANGED <<nRegions, geo_regions>>
            /\ call'.ret = "ValueError"]_vars

\* delete_region of request q returns in this step
DeleteReturns(q) == DeleteResume(q) /\ reqs[q].wait = 0

BuiltNow(f, region_id) ==
  LET o == Resume(f, region_id, geo_regions, is_active, detecciones, region_alerts,
                  clock, overpass)
  IN  {o.f.alerts[k] : k \in {j \in DOMAIN o.f.alerts : j > Len(f.alerts)}}

\* the alert carries the closest place of the lookup around its listing, or
\* no place at all when the lookup is empty
CarriesClosest(a) ==
  LET churches == find_churches_nearby(overpass, a.lat, a.lon) IN
  IF churches # <<>>
  THEN /\ a.osm_church_id = churches[1].osm_id
       /\ a.osm_church_name = churches[1].name
       /\ a.osm_distance_m = churches[1].distance
  ELSE /\ a.osm_church_id = NULL
       /\ a.osm_church_name = {}
       /\ a.osm_distance_m = NULL

\* C31: for every candidate with coordinates the alert's OSM id, name and
\* distance are those of the closest place of worship the lookup of this
\* scan returns; when the lookup returns nothing the alert carries no OSM
\* match: the three describe the same place or are all null.
C31_AlertCarriesClosest ==
  [][/\ \A q \in ReqIds :
          ReqScanStep(q) => \A a \in BuiltNow(reqs[q].f, reqs[q].region_id) : CarriesClosest(a)
     /\ \A t \in TaskIds :
          TaskScanStep(t) => \A a \in BuiltNow(tasks[t].f, tasks[t].region_id) :
                               CarriesClosest(a)]_vars

\* 300 times the proximity bonus for a closest distance d:
\* max_score x (1 - min(d / 300, 1))
Bonus300(d) == PROXIMITY.max_score * (300 - Min(d, 300))

\* the places the proximity lookup of the scorer finds for the listing
NearListing(inmueble) ==
  IF Get(inmueble, "latitud", NULL) = NULL \/ Get(inmueble, "longitud", NULL) = NULL
  THEN <<>>
  ELSE find_churches_nearby(overpass, inmueble.latitud, inmueble.longitud)

\* C32: when the proximity lookup returns candidates the bonus added to the
\* score is max_score x (1 - min(d / 300, 1)) for the closest distance d
\* (20 at d = 0, 0 from 300 m on) with one proximity evidence; with no
\* coordinates or an empty lookup no bonus and no proximity evidence is
\* added.
C32_ProximityBonus ==
  [][Returns("score", scorer_score(call.arg)) =>
       LET base == scorer_score(Unlocated(call.arg))
           near == NearListing(call.arg)
       IN  /\ ~call'.ret.raised
           /\ IF near = <<>>
              THEN call'.ret = base
              ELSE /\ 300 * call'.ret.score
                        = Min(300 * base.score + Bonus300(near[1].distance), 300 * 100)
                   /\ Len(call'.ret.evidences) = Len(base.evidences) + 1]_vars

\* C33: while the key of a (portal, listing id) has not expired, at most one
\* check_duplicate call for it has returned False, whatever the interleaving,
\* and once a call has returned every call that starts afterwards returns True
FalseReturns == clients[1].news + clients[2].news

C33_OneNewPerKey ==
  redis.expiries = 0 =>
    /\ FalseReturns <= 1
    /\ \A c \in ClientIds :
         clients[c].returned /\ clients[c].late => clients[c].ret

\* C39: for one lock name at most one client holds the lock at a time,
\* acquire_lock answers True only to the client whose SET set the key, and a
\* release_lock by a client that does not hold the lock leaves the key of the
\* client that does
Holders == { c \in ClientIds : clients[c].lease }

C39_LockExcludes ==
  /\ [](Cardinality(Holders) <= 1)
  /\ [][\A c \in ClientIds :
          /\ (clients[c].pc = "set" /\ clients'[c].pc = "held")
               => ~redis.lock.present /\ redis'.lock = [present |-> TRUE, owner |-> c]
          /\ (/\ clients[c].pc = "delete" /\ clients'[c].pc = "idle"
              /\ redis.lock.present /\ redis.lock.owner # c)
               => redis'.lock = redis.lock]_vars

\* C34: when delete_region or deactivate_region of a region returns, no monitor
\* loop of that region is running on any instance of the process, so that no
\* loop starts a later scan of it
DeactivateReturns(q) == DeactivateResume(q) /\ reqs[q].wait = 0

C34_RetiredNotMonitored ==
  [][\A q \in ReqIds :
       DeleteReturns(q) \/ DeactivateReturns(q)
         => \A t \in TaskIds :
              tasks'[t].region_id = reqs[q].region_id
                => tasks'[t].pc \in {"unused", "done"}]_vars

\* C35: the row a create operation saved gives back, when the initial scan of
\* that operation loads it, a region whose bounding box can be computed: the
\* geometry the region was created with is all there
C35_CreatedRegionScans ==
  \A q \in ReqIds :
    reqs[q].kind = "create" /\ ~RegionMissing(geo_regions[reqs[q].region_id])
      => get_bounding_box(geo_regions[reqs[q].region_id]).result = "bbox"

\* C36: a stop_monitoring call that resumes from awaiting the cancelled task
\* completes without raising, whatever other stop_monitoring or
\* start_monitoring calls ran on the instance while it waited, and leaves the
\* region without an entry in the task map
C36_OverlappingStops ==
  [][\A q \in ReqIds :
       reqs[q].kind = "stop" /\ StopResume(q)
         => /\ InMap(active_monitors[reqs[q].monitor], reqs[q].region_id)
            /\ ~InMap(active_monitors'[reqs[q].monitor], reqs[q].region_id)]_vars

\* C37: for every region get_bounding_box returns a box whose minimum
\* latitude and longitude are not above its maximum ones, and every point
\* contains_point accepts lies inside the box, so that the BETWEEN filter of
\* the candidate query excludes no listing the containment test would accept
InBox(bbox, lat, lon) ==
  /\ bbox.min_lat <= lat /\ lat <= bbox.max_lat
  /\ bbox.min_lon <= lon /\ lon <= bbox.max_lon

C37_PrefilterSound ==
  call.fn = "get_bounding_box" /\ call.done =>
    /\ call.ret.result = "bbox"
    /\ call.ret.min_lat <= call.ret.max_lat
    /\ call.ret.min_lon <= call.ret.max_lon
    /\ contains_point(call.arg.region, call.arg.lat, call.arg.lon)
         => InBox(call.ret, call.arg.lat, call.arg.lon)

\* C38: for a listing whose title is empty or missing find_match never gives
\* the exact tier (95): its result is the closest candidate with 80 below
\* 50 m, with 60 below 150 m, and None from 150 m on or without candidates
ByDistanceOnly(osm_churches) ==
  IF osm_churches = <<>> THEN NoMatch
  ELSE IF osm_churches[1].distance < 50 THEN OSMMatchResult(osm_churches[1], 80)
  ELSE IF osm_churches[1].distance < 150 THEN OSMMatchResult(osm_churches[1], 60)
  ELSE NoMatch

C38_EmptyTitleByDistance ==
  (/\ call.fn = "find_match" /\ call.done
   /\ Get(call.arg.inmueble, "titulo", {}) = {})
    => /\ call.ret.confidence # 95
       /\ call.ret = ByDistanceOnly(call.arg.osm_churches)

====
